---- MODULE Spec2Model ----
(***************************************************************************)
(* Workflow execution engine of AgentMarket (app/services/run_service.py)  *)
(* with the Run store it writes through (app/dao/workflow_run_dao.py).     *)
(*                                                                         *)
(* One Workflow and one Run of it are modelled.  The HTTP layer schedules  *)
(* execute_run / continue_run as background tasks (app/api/routes/runs.py) *)
(* and serves requests from a thread pool, so resume requests and the      *)
(* background tasks interleave; every Run store call is one atomic step.   *)
(* One iteration of the _execute_steps loop is one step of a task: it      *)
(* contains the external agent / model call of that workflow step.         *)
(*                                                                         *)
(* Left out of the records: latency_ms and the resolved `input` of a       *)
(* StepResult, startedAt, and the value of finishedAt (only set / unset).  *)
(***************************************************************************)
EXTENDS Integers, Sequences, FiniteSets, TLC

(* ------------------------------ bounds -------------------------------- *)
MaxSteps == 2
MaxOrder == 2
MaxResumes == 2
MaxFaults == 1

(* ------------------------- program constants -------------------------- *)
orchestrator_max_steps == 10

NoneV == "None"
Author == "u1"
Users == {"u1", "u2"}
Answers == {"yes", "no"}
DefaultQuestion == "Please provide input"
DefaultOutputField == "answer"

(* uuid4 step ids: one distinct id per position of the steps list *)
StepIdOf(i) == "s" \o ToString(i)

(* The step variants accepted by the API: AGENT, LLM, and LOGIC with its   *)
(* three logicTypes; a user_input step with and without question/field; a  *)
(* condition step whose `then` / `else` name steps by their ids.           *)
StepVariants ==
    { [type |-> "AGENT", logicType |-> NoneV, question |-> NoneV, outputField |-> NoneV,
       then |-> NoneV, else |-> NoneV],
      [type |-> "LLM",   logicType |-> NoneV, question |-> NoneV, outputField |-> NoneV,
       then |-> NoneV, else |-> NoneV],
      [type |-> "LOGIC", logicType |-> "condition", question |-> NoneV, outputField |-> NoneV,
       then |-> "s2", else |-> "s1"],
      [type |-> "LOGIC", logicType |-> "transform", question |-> NoneV, outputField |-> NoneV,
       then |-> NoneV, else |-> NoneV],
      [type |-> "LOGIC", logicType |-> "user_input", question |-> NoneV, outputField |-> NoneV,
       then |-> NoneV, else |-> NoneV],
      [type |-> "LOGIC", logicType |-> "user_input", question |-> "Approve?", outputField |-> "approved",
       then |-> NoneV, else |-> NoneV] }

MkStep(i, o, v) ==
    [stepId |-> StepIdOf(i), order |-> o, type |-> v.type, logicType |-> v.logicType,
     question |-> v.question, outputField |-> v.outputField,
     then |-> v.then, else |-> v.else]

(* Workflow step lists that add_step can build: steps are appended in call *)
(* order, each with a fresh stepId and a caller-chosen order.              *)
StepLists ==
    UNION { { [i \in 1..n |-> MkStep(i, os[i], vs[i])] :
                os \in [1..n -> 1..MaxOrder], vs \in [1..n -> StepVariants] } :
            n \in 0..MaxSteps }

(* ----------------------------- the state ------------------------------ *)
VARIABLES
    wfSteps,    \* Workflow.steps as stored (insertion order)
    run,        \* the persisted Run item (status "absent" before trigger)
    resp,       \* outcome of the last HTTP request handled
    tpc,        \* position of each background task
    tsteps,     \* task-local `steps` of _execute_steps
    tidx,       \* task-local loop position (1-based index of the next step)
    tresults,   \* task-local `all_results`
    touts,      \* task-local `step_outputs` (set of <<stepId, output>> pairs)
    rpc,        \* position of each resume request
    rrun,       \* the Run item a resume request has read
    ranswer,    \* the answer a resume request carries
    wfExists,   \* whether the Workflow item is still in the Workflow store
    calc        \* argument and result of the pure helper under study

vars == <<wfSteps, run, resp, tpc, tsteps, tidx, tresults, touts, rpc, rrun, ranswer,
          wfExists, calc>>

(* task 0 is execute_run; task r >= 1 is the continue_run scheduled by     *)
(* resume request r                                                        *)
Tasks == 0..MaxResumes
Resumers == 1..MaxResumes

(* `calc` while no pure helper is under study *)
NoCalc == [fn |-> "none"]

NoRun ==
    [status |-> "absent", stepResults |-> <<>>, finishedAt |-> FALSE,
     pendingSet |-> FALSE, pendingStepId |-> "", pendingStepOrder |-> 0,
     fatalError |-> NoneV]


(* ------------------------- pure helper functions ---------------------- *)

(* sorted(steps, key=order): Python's sort is stable, so steps of equal    *)
(* order keep their list order.  Insertion of x after every element whose  *)
(* order is <= x.order.                                                    *)
RECURSIVE InsertByOrder(_, _)
InsertByOrder(x, sorted) ==
    IF sorted = <<>> THEN <<x>>
    ELSE IF Head(sorted).order <= x.order
         THEN <<Head(sorted)>> \o InsertByOrder(x, Tail(sorted))
         ELSE <<x>> \o sorted

RECURSIVE SortedByOrder(_)
SortedByOrder(steps) ==
    IF steps = <<>> THEN <<>>
    ELSE InsertByOrder(steps[Len(steps)], SortedByOrder(SubSeq(steps, 1, Len(steps) - 1)))

(* the filter with order >= pending_step_order: the paused step is kept *)
RECURSIVE StepsAfter_Inclusive(_, _)
StepsAfter_Inclusive(steps, pendingOrder) ==
    IF steps = <<>> THEN <<>>
    ELSE IF Head(steps).order >= pendingOrder
         THEN <<Head(steps)>> \o StepsAfter_Inclusive(Tail(steps), pendingOrder)
         ELSE StepsAfter_Inclusive(Tail(steps), pendingOrder)

(* [s for s in steps if s.order > pending_step_order] *)
RECURSIVE StepsAfter(_, _)
StepsAfter(steps, pendingOrder) ==
    IF steps = <<>> THEN <<>>
    ELSE IF Head(steps).order > pendingOrder
         THEN <<Head(steps)>> \o StepsAfter(Tail(steps), pendingOrder)
         ELSE StepsAfter(Tail(steps), pendingOrder)

(* step_outputs[stepId] = output, on a dict kept as a set of pairs *)
PutOutput(outs, stepId, output) ==
    { p \in outs : p[1] # stepId } \cup { <<stepId, output>> }

(* the comprehension without its `if`: every entry contributes its output *)
RECURSIVE OutputsOf_AllResults(_)
OutputsOf_AllResults(results) ==
    IF results = <<>> THEN {}
    ELSE LET n == Len(results)
         IN PutOutput(OutputsOf_AllResults(SubSeq(results, 1, n - 1)),
                      results[n].stepId, results[n].output)

(* {sr.stepId: sr.output for sr in step_results if sr.status == "success"} *)
RECURSIVE OutputsOf(_)
OutputsOf(results) ==
    IF results = <<>> THEN {}
    ELSE LET n == Len(results)
             rest == OutputsOf(SubSeq(results, 1, n - 1))
         IN IF results[n].status = "success"
            THEN PutOutput(rest, results[n].stepId, results[n].output)
            ELSE rest

(* WorkflowRunDAO.create: the fresh Run item *)
CreateRun ==
    [status |-> "running", stepResults |-> <<>>, finishedAt |-> FALSE,
     pendingSet |-> FALSE, pendingStepId |-> "", pendingStepOrder |-> 0,
     fatalError |-> NoneV]

(* an update that drops the pause fields whenever no extra is passed *)
update_status_ClearsPause(item, status, hasResults, step_results, finished, hasExtra, extra) ==
    [item EXCEPT
        !.status = status,
        !.stepResults = IF hasResults THEN step_results ELSE @,
        !.finishedAt = IF finished THEN TRUE ELSE @,
        !.pendingSet = hasExtra,
        !.pendingStepId = IF hasExtra THEN extra.pendingStepId ELSE "",
        !.pendingStepOrder = IF hasExtra THEN extra.pendingStepOrder ELSE 0]

(* WorkflowRunDAO.update_status: a SET of the given fields only; status is *)
(* always written, stepResults when given, finishedAt when finished, and   *)
(* the extra pause fields when given.  Fields not named keep their value.  *)
update_status(item, status, hasResults, step_results, finished, hasExtra, extra) ==
    [item EXCEPT
        !.status = status,
        !.stepResults = IF hasResults THEN step_results ELSE @,
        !.finishedAt = IF finished THEN TRUE ELSE @,
        !.pendingSet = IF hasExtra THEN TRUE ELSE @,
        !.pendingStepId = IF hasExtra THEN extra.pendingStepId ELSE @,
        !.pendingStepOrder = IF hasExtra THEN extra.pendingStepOrder ELSE @]

NoExtra == [pendingStepId |-> "", pendingStepOrder |-> 0]

(* ------------------------------ step executors ------------------------ *)
EmptyDict == {}

(* the result built by the except branch of the loop for a raising step *)
FailedResult(step) ==
    [stepId |-> step.stepId, type |-> step.type, status |-> "failed",
     output |-> EmptyDict, error |-> "raised",
     pendingQuestion |-> NoneV, outputField |-> NoneV]

(* _exec_agent / _exec_llm after a successful external call *)
SuccessResult(step, output) ==
    [stepId |-> step.stepId, type |-> step.type, status |-> "success",
     output |-> output, error |-> NoneV,
     pendingQuestion |-> NoneV, outputField |-> NoneV]

(* user_input without the `or` fallbacks for question and outputField *)
UserInputResult_NoDefaults(step) ==
    [stepId |-> step.stepId, type |-> "LOGIC", status |-> "waiting_user_input",
     output |-> EmptyDict, error |-> NoneV,
     pendingQuestion |-> step.question, outputField |-> step.outputField]

(* _exec_logic, user_input branch *)
UserInputResult(step) ==
    [stepId |-> step.stepId, type |-> "LOGIC", status |-> "waiting_user_input",
     output |-> EmptyDict, error |-> NoneV,
     pendingQuestion |-> IF step.question # NoneV THEN step.question ELSE DefaultQuestion,
     outputField |-> IF step.outputField # NoneV THEN step.outputField ELSE DefaultOutputField]

(* a condition result that always names the `then` target *)
ConditionResult_AlwaysThenTarget(step, branch_taken) ==
    [stepId |-> step.stepId, type |-> step.type, status |-> "success",
     output |-> { <<"result", IF branch_taken THEN "true" ELSE "false">>,
                  <<"branch", IF branch_taken THEN "then" ELSE "else">>,
                  <<"nextStep", step.then>> },
     error |-> NoneV, pendingQuestion |-> NoneV, outputField |-> NoneV]

(* _exec_logic, condition branch; branch_taken is the evaluator's verdict *)
ConditionResult(step, branch_taken) ==
    SuccessResult(step,
        { <<"result", IF branch_taken THEN "true" ELSE "false">>,
          <<"branch", IF branch_taken THEN "then" ELSE "else">>,
          <<"nextStep", IF branch_taken THEN step.then ELSE step.else>> })

(* The faults one attempt of `step` can raise inside _execute_single_step:  *)
(* the agent lookup finding nothing, the agent invocation or the model     *)
(* call raising, template resolution (of an input mapping, a prompt or a   *)
(* condition's `if`) raising on an earlier output that is not a dict, and  *)
(* the ValueError for an unknown step type.                                *)
StepFaultNames ==
    {"agent_not_found", "agent_invocation", "llm_call", "template_resolution",
     "unknown_type"}

StepFaults(step) ==
    IF step.type = "AGENT"
    THEN {"agent_not_found", "agent_invocation", "template_resolution"}
    ELSE IF step.type = "LLM" THEN {"llm_call", "template_resolution"}
    ELSE IF step.type = "LOGIC"
    THEN IF step.logicType = "condition" THEN {"template_resolution"} ELSE {}
    ELSE {"unknown_type"}

(* The results _execute_single_step can return for `step`: an AGENT or LLM *)
(* step whose external call returns, a condition with either verdict, and  *)
(* the deterministic user_input and transform results.                     *)
StepReturns(step) ==
    IF step.type = "AGENT" THEN { SuccessResult(step, {<<"out", "agent">>}) }
    ELSE IF step.type = "LLM" THEN { SuccessResult(step, {<<"content", "text">>}) }
    ELSE IF step.type = "LOGIC"
    THEN IF step.logicType = "user_input" THEN { UserInputResult(step) }
         ELSE IF step.logicType = "condition"
         THEN { ConditionResult(step, b) : b \in BOOLEAN }
         ELSE { SuccessResult(step, EmptyDict) }
    ELSE {}

(* a loop that catches `except ValueError` only *)
CaughtByLoop_ValueErrorOnly(fault) == fault \in {"agent_not_found", "unknown_type"}

(* `except Exception` of the loop (line 298): every step fault is one *)
CaughtByLoop(fault) == fault \in StepFaultNames

(* _execute_single_step with the try/except of the loop around it: the set *)
(* of results one attempt of `step` can put into all_results               *)
StepOutcomes(step) ==
    StepReturns(step) \cup
        { FailedResult(step) : f \in { g \in StepFaults(step) : CaughtByLoop(g) } }

(* the step faults that leave the loop and reach the handler of            *)
(* execute_run / continue_run                                              *)
Uncaught(step) == { f \in StepFaults(step) : ~CaughtByLoop(f) }

(* ----------------- top-level handler of a background task ------------- *)
(* str(exc) of a Run store or Workflow store call that raised *)
StoreError == "store_error"

(* a handler write that leaves finishedAt alone *)
update_status_fatal_NotFinished(item, err) ==
    [update_status(item, "failed", FALSE, <<>>, FALSE, FALSE, NoExtra)
        EXCEPT !.fatalError = err]

(* update_status(wf, run, "failed", finished=True, extra={"fatalError": str(exc)}) *)
update_status_fatal(item, err) ==
    [update_status(item, "failed", FALSE, <<>>, TRUE, FALSE, NoExtra)
        EXCEPT !.fatalError = err]

(* `except Exception as exc` of execute_run / continue_run: the write is   *)
(* itself guarded by try / except: pass, so it either takes effect (ok) or *)
(* raises and is dropped                                                   *)
fatal_handler(item, err, ok) == IF ok THEN update_status_fatal(item, err) ELSE item

PcAfterFatal(ok) == IF ok THEN "done_fatal" ELSE "done_swallowed"

(* ------------------------------- Init --------------------------------- *)
Init ==
    /\ wfSteps \in StepLists
    /\ run = NoRun
    /\ resp = "none"
    /\ tpc = [t \in Tasks |-> "idle"]
    /\ tsteps = [t \in Tasks |-> <<>>]
    /\ tidx = [t \in Tasks |-> 1]
    /\ tresults = [t \in Tasks |-> <<>>]
    /\ touts = [t \in Tasks |-> {}]
    /\ rpc = [r \in Resumers |-> "idle"]
    /\ rrun = [r \in Resumers |-> NoRun]
    /\ ranswer = [r \in Resumers |-> NoneV]
    /\ wfExists = TRUE
    /\ calc = NoCalc

(* ------------------------- ownership ---------------------------------- *)
(* an ownership check that lets every caller through *)
Forbidden_Nobody(u) == FALSE

(* _assert_owner: raises 403 when wf["authorId"] != requester_id *)
Forbidden(u) == u # Author

(* --------------------- POST /{workflow_id}/run ------------------------ *)
(* routes.trigger_run -> RunService.trigger_run, then add_task(execute_run).*)
(* One Run is modelled, so the request is served once.                     *)
trigger_run(u) ==
    /\ run.status = "absent"
    /\ IF ~wfExists
       THEN /\ resp' = "trigger_404"
            /\ UNCHANGED <<wfSteps, wfExists, calc, run, tpc, tsteps, tidx, tresults, touts, rpc, rrun, ranswer>>
       ELSE IF Forbidden(u)
       THEN /\ resp' = "trigger_403"
            /\ UNCHANGED <<wfSteps, wfExists, calc, run, tpc, tsteps, tidx, tresults, touts, rpc, rrun, ranswer>>
       ELSE IF Len(wfSteps) = 0 \/ Len(wfSteps) > orchestrator_max_steps
       THEN /\ resp' = "trigger_400"
            /\ UNCHANGED <<wfSteps, wfExists, calc, run, tpc, tsteps, tidx, tresults, touts, rpc, rrun, ranswer>>
       ELSE /\ run' = CreateRun
            /\ tpc' = [tpc EXCEPT ![0] = "scheduled"]
            /\ resp' = "trigger_202"
            /\ UNCHANGED <<wfSteps, wfExists, calc, tsteps, tidx, tresults, touts, rpc, rrun, ranswer>>

(* ------------------- background task: execute_run --------------------- *)
(* lines 138-150 up to the entry of the _execute_steps loop                *)
execute_run_start ==
    /\ tpc[0] = "scheduled"
    /\ IF ~wfExists                        \* `if not wf: return`
       THEN /\ tpc' = [tpc EXCEPT ![0] = "returned"]
            /\ UNCHANGED <<tsteps, tidx, tresults, touts>>
       ELSE /\ tpc' = [tpc EXCEPT ![0] = "loop"]
            /\ tsteps' = [tsteps EXCEPT ![0] = SortedByOrder(wfSteps)]
            /\ tidx' = [tidx EXCEPT ![0] = 1]
            /\ tresults' = [tresults EXCEPT ![0] = <<>>]
            /\ touts' = [touts EXCEPT ![0] = {}]
    /\ UNCHANGED <<wfSteps, wfExists, calc, run, resp, rpc, rrun, ranswer>>

(* ------------------- background task: continue_run -------------------- *)
(* lines 218-244 up to the entry of the _execute_steps loop: reads the Run *)
(* item once and derives everything from that read                         *)
continue_run_start(t) ==
    /\ t \in Resumers
    /\ tpc[t] = "scheduled"
    /\ IF ~wfExists                        \* `if not wf: return`
       THEN /\ tpc' = [tpc EXCEPT ![t] = "returned"]
            /\ UNCHANGED <<tsteps, tidx, tresults, touts>>
       ELSE /\ tpc' = [tpc EXCEPT ![t] = "loop"]
            /\ tsteps' = [tsteps EXCEPT ![t] =
                            SortedByOrder(StepsAfter(wfSteps, run.pendingStepOrder))]
            /\ tidx' = [tidx EXCEPT ![t] = 1]
            /\ tresults' = [tresults EXCEPT ![t] = run.stepResults]
            /\ touts' = [touts EXCEPT ![t] = OutputsOf(run.stepResults)]
    /\ UNCHANGED <<wfSteps, wfExists, calc, run, resp, rpc, rrun, ranswer>>

(* ------------------------ _execute_steps loop ------------------------- *)
(* the failed branch written without finished=True *)
PersistAfterStep_FailedNotFinished(item, step, result, all_results) ==
    IF result.status = "failed"
    THEN update_status(item, "failed", TRUE, all_results, FALSE, FALSE, NoExtra)
    ELSE IF result.status = "waiting_user_input"
    THEN update_status(item, "waiting_user_input", TRUE, all_results, FALSE, TRUE,
                       [pendingStepId |-> step.stepId, pendingStepOrder |-> step.order])
    ELSE item

(* The Run item after one loop iteration that produced `result` for `step` *)
(* with `all_results` already holding it: the failed and the paused branch *)
(* write, the success branch does not.                                     *)
PersistAfterStep(item, step, result, all_results) ==
    IF result.status = "failed"
    THEN update_status(item, "failed", TRUE, all_results, TRUE, FALSE, NoExtra)
    ELSE IF result.status = "waiting_user_input"
    THEN update_status(item, "waiting_user_input", TRUE, all_results, FALSE, TRUE,
                       [pendingStepId |-> step.stepId, pendingStepOrder |-> step.order])
    ELSE item

(* where the task stands after the iteration *)
PcAfterStep(result) ==
    IF result.status = "failed" THEN "done_failed"
    ELSE IF result.status = "waiting_user_input" THEN "done_paused"
    ELSE "loop"

(* one iteration of `for step in steps` (lines 293-332) *)
execute_step(t) ==
    /\ tpc[t] = "loop"
    /\ tidx[t] <= Len(tsteps[t])
    /\ LET step == tsteps[t][tidx[t]] IN
       \/ \E result \in StepOutcomes(step) :
             LET all_results == Append(tresults[t], result) IN
             /\ tresults' = [tresults EXCEPT ![t] = all_results]
             /\ run' = PersistAfterStep(run, step, result, all_results)
             /\ tpc' = [tpc EXCEPT ![t] = PcAfterStep(result)]
             /\ tidx' = [tidx EXCEPT ![t] = @ + 1]
             /\ touts' = [touts EXCEPT ![t] =
                            IF result.status = "success"
                            THEN PutOutput(@, step.stepId, result.output) ELSE @]
       \/ \E f \in Uncaught(step), ok \in BOOLEAN :   \* a fault the loop lets through
             /\ run' = fatal_handler(run, f, ok)
             /\ tpc' = [tpc EXCEPT ![t] = PcAfterFatal(ok)]
             /\ UNCHANGED <<tidx, tresults, touts>>
    /\ UNCHANGED <<wfSteps, wfExists, calc, resp, tsteps, rpc, rrun, ranswer>>

(* loop exhausted: "All steps finished successfully" (lines 334-339) *)
finish_steps(t) ==
    /\ tpc[t] = "loop"
    /\ tidx[t] > Len(tsteps[t])
    /\ run' = update_status(run, "success", TRUE, tresults[t], TRUE, FALSE, NoExtra)
    /\ tpc' = [tpc EXCEPT ![t] = "done_success"]
    /\ UNCHANGED <<wfSteps, wfExists, calc, resp, tsteps, tidx, tresults, touts, rpc, rrun, ranswer>>

(* -------------- POST /{workflow_id}/runs/{run_id}/resume -------------- *)
(* a status check that also lets a Run through that is already running *)
ResumeRejects_AcceptsRunning(item) ==
    item.status \notin {"waiting_user_input", "running"}

(* the precondition `run["status"] != "waiting_user_input"` of resume_run  *)
ResumeRejects(item) == item.status # "waiting_user_input"

(* resume_run lines 175-188: ownership, the read of the Run item, and the  *)
(* status check.  A rejected request ends here with an HTTP error.         *)
resume_run_read(r, u, answer) ==
    /\ rpc[r] = "idle"
    /\ \A q \in Resumers : rpc[q] = "idle" => r <= q   \* requests are numbered as they arrive
    /\ IF ~wfExists
       THEN /\ resp' = "resume_404"
            /\ UNCHANGED <<rpc, rrun, ranswer>>
       ELSE IF Forbidden(u)
       THEN /\ resp' = "resume_403"
            /\ UNCHANGED <<rpc, rrun, ranswer>>
       ELSE IF run.status = "absent"
       THEN /\ resp' = "resume_404"
            /\ UNCHANGED <<rpc, rrun, ranswer>>
       ELSE IF ResumeRejects(run)
       THEN /\ resp' = "resume_400"
            /\ UNCHANGED <<rpc, rrun, ranswer>>
       ELSE /\ resp' = "resume_read"
            /\ rpc' = [rpc EXCEPT ![r] = "read"]
            /\ rrun' = [rrun EXCEPT ![r] = run]
            /\ ranswer' = [ranswer EXCEPT ![r] = answer]
    /\ UNCHANGED <<wfSteps, wfExists, calc, run, tpc, tsteps, tidx, tresults, touts>>

(* the rewrite without "pendingQuestion": None *)
ResumedResult_KeepsQuestion(sr, answer) ==
    [sr EXCEPT !.status = "success",
               !.output = { << (IF sr.outputField # NoneV THEN sr.outputField
                                ELSE DefaultOutputField), answer >> }]

(* the rewritten StepResult of lines 197-202 *)
ResumedResult(sr, answer) ==
    [sr EXCEPT !.status = "success",
               !.output = { << (IF sr.outputField # NoneV THEN sr.outputField
                                ELSE DefaultOutputField), answer >> },
               !.pendingQuestion = NoneV]

(* lines 193-203: the first entry whose stepId is pendingStepId is         *)
(* rewritten, every other entry is copied                                  *)
RECURSIVE InjectAnswer(_, _, _)
InjectAnswer(results, pending_step_id, answer) ==
    IF results = <<>> THEN <<>>
    ELSE IF Head(results).stepId = pending_step_id
         THEN <<ResumedResult(Head(results), answer)>> \o Tail(results)
         ELSE <<Head(results)>> \o InjectAnswer(Tail(results), pending_step_id, answer)

(* resume_run lines 190-209 and the add_task(continue_run) of the route *)
resume_run_write(r) ==
    /\ rpc[r] = "read"
    /\ run' = update_status(run, "running", TRUE,
                  InjectAnswer(rrun[r].stepResults,
                               IF rrun[r].pendingSet THEN rrun[r].pendingStepId ELSE "",
                               ranswer[r]),
                  FALSE, FALSE, NoExtra)
    /\ rpc' = [rpc EXCEPT ![r] = "done"]
    /\ tpc' = [tpc EXCEPT ![r] = "scheduled"]
    /\ resp' = "resume_200"
    /\ rrun' = [rrun EXCEPT ![r] = NoRun]          \* the request's locals end with it
    /\ ranswer' = [ranswer EXCEPT ![r] = NoneV]
    /\ UNCHANGED <<wfSteps, wfExists, calc, tsteps, tidx, tresults, touts>>

Next ==
    \/ \E u \in Users : trigger_run(u)
    \/ execute_run_start
    \/ \E t \in Tasks : continue_run_start(t)
    \/ \E t \in Tasks : execute_step(t)
    \/ \E t \in Tasks : finish_steps(t)
    \/ \E r \in Resumers, u \in Users, a \in Answers : resume_run_read(r, u, a)
    \/ \E r \in Resumers : resume_run_write(r)

Spec == Init /\ [][Next]_vars

(* A scheduled background task runs to completion when every collaborator  *)
(* call returns: FastAPI runs each added task after the response is sent.  *)
TaskStep(t) ==
    \/ (t = 0 /\ execute_run_start)
    \/ continue_run_start(t)
    \/ execute_step(t)
    \/ finish_steps(t)

FairSpec == Spec /\ \A t \in Tasks : WF_vars(TaskStep(t))

(* ============================ properties ============================== *)
TerminalStatus == {"success", "failed"}

(* some resume request was handled in this step *)
ResumeRequestStep == \E r \in Resumers, u \in Users, a \in Answers : resume_run_read(r, u, a)

(* C1: while a pass of the engine is between two steps, the persisted      *)
(* stepResults is exactly the list of results of the steps completed so    *)
(* far (the task's all_results) and the persisted status is running.       *)
C1_PersistedAfterEveryStep ==
    \A t \in Tasks :
        (tpc[t] = "loop" /\ tidx[t] <= Len(tsteps[t]))
            => run.stepResults = tresults[t] /\ run.status = "running"

(* C2: whenever the Run is in status success, stepResults has one entry    *)
(* per step of the Workflow.                                               *)
C2_SuccessHasOneResultPerStep ==
    run.status = "success" => Len(run.stepResults) = Len(wfSteps)

(* C3: a resume request that finds the Run in a status other than          *)
(* waiting_user_input is answered with an error, changes nothing of the    *)
(* persisted Run, is not admitted and schedules no continuation; so a      *)
(* request arriving after an accepted one (status running) is rejected.    *)
C3_ResumeOfUnpausedRunRejected ==
    [][ (ResumeRequestStep /\ run.status # "waiting_user_input")
          => /\ run' = run
             /\ rpc' = rpc
             /\ tpc' = tpc
             /\ resp' \in {"resume_400", "resume_403", "resume_404"} ]_vars

(* a resume was accepted, and a later request found the Run running and    *)
(* was rejected with 400                                                   *)
C3_Witness ==
    /\ resp = "resume_400"
    /\ run.status = "running"
    /\ \E r \in Resumers : rpc[r] = "done"

(* ---------------------------------------------------------------------- *)
DistinctOrders ==
    \A i, j \in 1..Len(wfSteps) : i # j => wfSteps[i].order # wfSteps[j].order

IsUserInput(step) == step.type = "LOGIC" /\ step.logicType = "user_input"

(* positions of the user_input steps in execution order *)
UserInputPositions ==
    { i \in 1..Len(wfSteps) : IsUserInput(SortedByOrder(wfSteps)[i]) }

(* resume requests that passed the status check *)
Admitted == { r \in Resumers : rpc[r] # "idle" }

(* some external call of some pass has raised *)
Faulted == \E t \in Tasks : tpc[t] = "done_failed"

(* the case of C4: distinct orders and a user_input step, the first of     *)
(* which is the k-th step in execution order                               *)
C4_Case == DistinctOrders /\ UserInputPositions # {}

C4_K == CHOOSE k \in UserInputPositions : \A j \in UserInputPositions : k <= j

(* ... and no later user_input step *)
C4_NoLaterPause == Cardinality(UserInputPositions) = 1

(* C4, the pause: when execute_run has paused and no resume has been       *)
(* admitted yet, the Run is waiting_user_input with exactly k StepResults  *)
(* and pendingStepOrder is the k-th step's order.                          *)
C4_PausedAtK ==
    (C4_Case /\ tpc[0] = "done_paused" /\ Admitted = {})
        => /\ run.status = "waiting_user_input"
           /\ Len(run.stepResults) = C4_K
           /\ run.pendingSet
           /\ run.pendingStepOrder = SortedByOrder(wfSteps)[C4_K].order

(* C4, reaching the pause: the scheduled execute_run pauses the Run unless *)
(* an external call raises.                                                *)
C4_TriggeredRunPauses ==
    (C4_Case /\ tpc[0] = "scheduled")
        ~> \/ (tpc[0] = "done_paused" /\ run.status = "waiting_user_input")
           \/ Faulted

(* C4, the resume: once the one resume request has been accepted, the      *)
(* continuation brings the Run to success with exactly n StepResults,      *)
(* unless an external call raises or a second resume request is admitted.  *)
C4_ResumedRunSucceeds ==
    (C4_Case /\ C4_NoLaterPause /\ \E r \in Resumers : rpc[r] = "done")
        ~> \/ (run.status = "success" /\ Len(run.stepResults) = Len(wfSteps))
           \/ Faulted
           \/ Cardinality(Admitted) > 1

(* C4: trigger and execute_run pause at the k-th step with k results; one  *)
(* resume_run and its continue_run then eventually reach success with n.   *)
C4_PauseThenResumeCompletes ==
    []C4_PausedAtK /\ C4_TriggeredRunPauses /\ C4_ResumedRunSucceeds

(* a 2-step workflow paused at its first step, resumed once, and finished  *)
(* with both results                                                       *)
C4_Witness ==
    /\ C4_Case /\ C4_NoLaterPause /\ Len(wfSteps) = 2 /\ C4_K = 1
    /\ Cardinality(Admitted) = 1 /\ ~Faulted
    /\ \E r \in Resumers : tpc[r] = "done_success"
    /\ run.status = "success" /\ Len(run.stepResults) = Len(wfSteps)

(* ---------------------------------------------------------------------- *)
Last(seq) == seq[Len(seq)]

(* task t runs one loop iteration in this step, on the step `CurStep(t)` *)
Iterates(t) == tpc[t] = "loop" /\ tidx'[t] = tidx[t] + 1
CurStep(t) == tsteps[t][tidx[t]]

(* a pass that has ended executes nothing more *)
PassOver(t) ==
    tpc[t] \in {"done_failed", "done_paused", "done_success"}
        => tpc'[t] = tpc[t] /\ tidx'[t] = tidx[t] /\ tresults'[t] = tresults[t]

(* C5: when a step of a pass fails, the Run is written failed with         *)
(* finishedAt set and stepResults = the results accumulated before it      *)
(* followed by the failed one (k entries, the k-1 before it success, for   *)
(* execute_run's k-th step), and that pass executes no further step.       *)
C5_FailedStepEndsRun ==
    [][ \A t \in Tasks :
          /\ (Iterates(t) /\ Last(tresults'[t]).status = "failed")
               => /\ run'.status = "failed"
                  /\ run'.finishedAt
                  /\ run'.stepResults = Append(tresults[t], FailedResult(CurStep(t)))
                  /\ tpc'[t] = "done_failed"
                  /\ t = 0 => /\ Len(run'.stepResults) = tidx[t]
                              /\ \A i \in 1..(tidx[t] - 1) :
                                    run'.stepResults[i].status = "success"
          /\ PassOver(t) ]_vars

(* the second step of execute_run raised: two results, success then        *)
(* failed, and the pass stopped although it is not the only pass           *)
C5_Witness ==
    /\ tpc[0] = "done_failed"
    /\ run.status = "failed" /\ run.finishedAt
    /\ Len(run.stepResults) = 2
    /\ run.stepResults[1].status = "success"
    /\ run.stepResults[2].status = "failed"

(* C6: an iteration on a user_input step appends a waiting_user_input      *)
(* result with the configured or default question and output field, makes  *)
(* it the last persisted StepResult, writes status waiting_user_input with *)
(* pendingStepId / pendingStepOrder of that step, does not set finishedAt, *)
(* and ends the pass.                                                      *)
C6_UserInputPausesRun ==
    [][ \A t \in Tasks :
          /\ (Iterates(t) /\ IsUserInput(CurStep(t)))
               => /\ run'.status = "waiting_user_input"
                  /\ run'.pendingSet
                  /\ run'.pendingStepId = CurStep(t).stepId
                  /\ run'.pendingStepOrder = CurStep(t).order
                  /\ run'.stepResults = tresults'[t]
                  /\ Last(run'.stepResults) =
                        [stepId |-> CurStep(t).stepId, type |-> "LOGIC",
                         status |-> "waiting_user_input",
                         output |-> {}, error |-> NoneV,
                         pendingQuestion |->
                            IF CurStep(t).question = NoneV THEN "Please provide input"
                            ELSE CurStep(t).question,
                         outputField |->
                            IF CurStep(t).outputField = NoneV THEN "answer"
                            ELSE CurStep(t).outputField]
                  /\ run'.finishedAt = run.finishedAt
                  /\ tpc'[t] = "done_paused"
          /\ PassOver(t) ]_vars

(* a pass paused on a user_input step without question, before a later     *)
(* step of the same pass                                                   *)
C6_Witness ==
    \E t \in Tasks :
        /\ tpc[t] = "done_paused"
        /\ tidx[t] <= Len(tsteps[t])
        /\ run.status = "waiting_user_input"
        /\ ~run.finishedAt
        /\ Last(run.stepResults).pendingQuestion = "Please provide input"
        /\ Last(run.stepResults).outputField = "answer"

(* the write of resume request r happens in this step *)
ResumeWrites(r) == rpc[r] = "read" /\ rpc'[r] = "done"

(* C7: the write of a resume request on the paused Run it has read changes *)
(* exactly one StepResult, the one whose stepId is pendingStepId, to       *)
(* success with output {outputField or "answer": answer} and no            *)
(* pendingQuestion; the list keeps its length and every other entry; the   *)
(* status becomes running, finishedAt and the pause fields are untouched.  *)
C7_ResumeRewritesOnlyPausedStep ==
    [][ \A r \in Resumers :
          (ResumeWrites(r) /\ run = rrun[r])
            => LET old == run.stepResults
                   new == run'.stepResults
                   changed == { i \in 1..Len(old) : new[i] # old[i] }
               IN /\ Len(new) = Len(old)
                  /\ Cardinality(changed) = 1
                  /\ \A i \in changed :
                        /\ old[i].stepId = run.pendingStepId
                        /\ new[i].status = "success"
                        /\ new[i].output =
                             { << (IF old[i].outputField = NoneV THEN "answer"
                                   ELSE old[i].outputField), ranswer[r] >> }
                        /\ new[i].pendingQuestion = NoneV
                        /\ new[i].stepId = old[i].stepId
                        /\ new[i].type = old[i].type
                        /\ new[i].outputField = old[i].outputField
                        /\ new[i].error = old[i].error
                  /\ run'.status = "running"
                  /\ run'.finishedAt = run.finishedAt
                  /\ run'.pendingSet /\ run.pendingSet
                  /\ run'.pendingStepId = run.pendingStepId
                  /\ run'.pendingStepOrder = run.pendingStepOrder ]_vars

(* a resumed Run with two results: the first untouched, the second the     *)
(* answered user_input step, pause fields still there                      *)
C7_Witness ==
    /\ run.status = "running"
    /\ resp = "resume_200"
    /\ ~run.finishedAt
    /\ Len(run.stepResults) = 2
    /\ run.stepResults[1].type = "AGENT"
    /\ run.stepResults[2].status = "success"
    /\ run.stepResults[2].output = {<<"approved", "no">>}
    /\ run.pendingSet /\ run.pendingStepId = run.stepResults[2].stepId

(* ---------------------------------------------------------------------- *)
(* C8: once the persisted status is success or failed, no step of any      *)
(* request or background task changes the status or stepResults.           *)
C8_TerminalStatesAbsorbing ==
    [][ run.status \in TerminalStatus
          => run'.status = run.status /\ run'.stepResults = run.stepResults ]_vars

(* C9: finishedAt is set only in a terminal status.                        *)
C9_FinishedOnlyWhenTerminal ==
    run.finishedAt => run.status \in TerminalStatus

(* C10: the pause fields are present only in status waiting_user_input.    *)
C10_PauseFieldsOnlyWhileWaiting ==
    run.pendingSet => run.status = "waiting_user_input"

(* some pass of the engine has paused the Run *)
HasPaused == \E t \in Tasks : tpc[t] = "done_paused"

(* C10 as the code has it: the pause fields are absent until the first     *)
(* pause, every write of waiting_user_input sets them to the ids of a      *)
(* step of the workflow, and nothing clears or changes them afterwards     *)
(* short of the next pause: they are retained in running, success and      *)
(* failed.                                                                 *)
C10_PauseFieldsRetained ==
    /\ [](run.pendingSet <=> HasPaused)
    /\ [](run.status = "waiting_user_input" => run.pendingSet)
    /\ [](run.pendingSet =>
            \E i \in 1..Len(wfSteps) :
                /\ wfSteps[i].stepId = run.pendingStepId
                /\ wfSteps[i].order = run.pendingStepOrder
                /\ IsUserInput(wfSteps[i]))
    /\ [][ run.pendingSet =>
             /\ run'.pendingSet
             /\ (run'.status # "waiting_user_input" =>
                    /\ run'.pendingStepId = run.pendingStepId
                    /\ run'.pendingStepOrder = run.pendingStepOrder) ]_vars

(* a resumed Run that has completed and still carries the pause fields *)
C10_Witness ==
    /\ run.status = "success"
    /\ run.pendingSet
    /\ run.pendingStepId = "s1"
    /\ run.pendingStepOrder = 1
    /\ Len(run.stepResults) = 2
(* ---------------------------------------------------------------------- *)
(* a background pass of the Run that is inside the _execute_steps loop     *)
(* with a step still to execute                                            *)
Executing(t) == tpc[t] = "loop" /\ tidx[t] <= Len(tsteps[t])

(* C11: execution is single-threaded per Run: under every interleaving of  *)
(* trigger and resume requests with the background execute_run and         *)
(* continue_run tasks, two concurrent resume requests included, at most    *)
(* one background pass of the Run is executing a step at any time.         *)
C11_SingleThreadedPerRun ==
    Cardinality({ t \in Tasks : Executing(t) }) <= 1

(* ====================================================================== *)
(* Background tasks with a failing store.  Every Workflow store and Run    *)
(* store call of execute_run / continue_run may raise (botocore errors);   *)
(* the call that raises has no effect on the item.                         *)
(* ====================================================================== *)

(* the store raises at most MaxFaults times during the Run: one pass ends  *)
(* in the handler per store fault                                          *)
StoreMayFail ==
    Cardinality({ t \in Tasks : tpc[t] \in {"done_fatal", "done_swallowed"} }) < MaxFaults

(* wf_dao.get (lines 138, 218) or run_dao.get (line 221) raises *)
start_fault(t) ==
    /\ StoreMayFail
    /\ tpc[t] = "scheduled"
    /\ \E ok \in BOOLEAN :
          /\ run' = fatal_handler(run, StoreError, ok)
          /\ tpc' = [tpc EXCEPT ![t] = PcAfterFatal(ok)]
    /\ UNCHANGED <<wfSteps, wfExists, calc, resp, tsteps, tidx, tresults, touts, rpc, rrun, ranswer>>

(* a loop iteration whose update_status (lines 314, 321) raises: the step  *)
(* has been executed and its result appended to the local all_results      *)
step_write_fault(t) ==
    /\ StoreMayFail
    /\ tpc[t] = "loop"
    /\ tidx[t] <= Len(tsteps[t])
    /\ LET step == tsteps[t][tidx[t]] IN
       \E result \in StepOutcomes(step), ok \in BOOLEAN :
          /\ result.status \in {"failed", "waiting_user_input"}
          /\ tresults' = [tresults EXCEPT ![t] = Append(@, result)]
          /\ tidx' = [tidx EXCEPT ![t] = @ + 1]
          /\ run' = fatal_handler(run, StoreError, ok)
          /\ tpc' = [tpc EXCEPT ![t] = PcAfterFatal(ok)]
    /\ UNCHANGED <<wfSteps, wfExists, calc, resp, tsteps, touts, rpc, rrun, ranswer>>

(* the update_status of line 335 raises after the last step *)
finish_write_fault(t) ==
    /\ StoreMayFail
    /\ tpc[t] = "loop"
    /\ tidx[t] > Len(tsteps[t])
    /\ \E ok \in BOOLEAN :
          /\ run' = fatal_handler(run, StoreError, ok)
          /\ tpc' = [tpc EXCEPT ![t] = PcAfterFatal(ok)]
    /\ UNCHANGED <<wfSteps, wfExists, calc, resp, tsteps, tidx, tresults, touts, rpc, rrun, ranswer>>

(* the `return self._run_dao.get(...)` after a write (lines 318, 329, 339) *)
(* raises: the write has taken effect and the handler runs after it        *)
final_get_fault(t) ==
    /\ StoreMayFail
    /\ tpc[t] \in {"done_failed", "done_paused", "done_success"}
    /\ \E ok \in BOOLEAN :
          /\ run' = fatal_handler(run, StoreError, ok)
          /\ tpc' = [tpc EXCEPT ![t] = PcAfterFatal(ok)]
    /\ UNCHANGED <<wfSteps, wfExists, calc, resp, tsteps, tidx, tresults, touts, rpc, rrun, ranswer>>

NextFault ==
    \/ \E u \in Users : trigger_run(u)
    \/ execute_run_start
    \/ \E t \in Tasks : continue_run_start(t)
    \/ \E t \in Tasks : execute_step(t)
    \/ \E t \in Tasks : finish_steps(t)
    \/ \E r \in Resumers, u \in Users, a \in Answers : resume_run_read(r, u, a)
    \/ \E r \in Resumers : resume_run_write(r)
    \/ \E t \in Tasks : start_fault(t)
    \/ \E t \in Tasks : step_write_fault(t)
    \/ \E t \in Tasks : finish_write_fault(t)
    \/ \E t \in Tasks : final_get_fault(t)

SpecFault == Init /\ [][NextFault]_vars

(* the pass of task t ends in the top-level handler in this step *)
EndsInHandler(t) ==
    /\ tpc[t] \notin {"done_fatal", "done_swallowed"}
    /\ tpc'[t] \in {"done_fatal", "done_swallowed"}

(* C12: every attempt of a step puts exactly one result for that step at   *)
(* the end of the pass's results; a fault raised by the step (agent not    *)
(* found, agent invocation, model call, template resolution, unknown type) *)
(* becomes a failed result carrying the error, which is persisted with     *)
(* status failed unless the store write itself raises; no step fault ever  *)
(* becomes the Run's fatalError, and a pass reaches the top-level handler  *)
(* only with a store error.                                                *)
C12_StepFaultBecomesFailedResult ==
    [][ /\ \A t \in Tasks :
            /\ Iterates(t) =>
                 /\ Len(tresults'[t]) = Len(tresults[t]) + 1
                 /\ SubSeq(tresults'[t], 1, Len(tresults[t])) = tresults[t]
                 /\ Last(tresults'[t]).stepId = CurStep(t).stepId
                 /\ Last(tresults'[t]).status \in {"success", "failed", "waiting_user_input"}
                 /\ Last(tresults'[t]).status = "failed" =>
                       /\ Last(tresults'[t]).error # NoneV
                       /\ tpc'[t] = "done_failed" =>
                             /\ run'.status = "failed"
                             /\ run'.stepResults = tresults'[t]
                             /\ run'.fatalError = run.fatalError
            /\ EndsInHandler(t) => run'.fatalError \in {run.fatalError, StoreError}
        /\ run'.fatalError \notin StepFaultNames ]_vars

(* an AGENT step of execute_run raised as the second step while the store  *)
(* works: the failed result is persisted and no fatalError is recorded     *)
C12_Witness ==
    /\ tpc[0] = "done_failed"
    /\ Len(tsteps[0]) = 2 /\ tsteps[0][2].type = "AGENT"
    /\ Len(run.stepResults) = 2
    /\ run.stepResults[2].status = "failed" /\ run.stepResults[2].error # NoneV
    /\ run.fatalError = NoneV

C14_FailedRunKeepsExecutedResults ==
    run.status = "failed" =>
        \A t \in Tasks : \A i \in 1..Len(tresults[t]) :
            tresults[t][i].status = "success" =>
                \E j \in 1..Len(run.stepResults) :
                    run.stepResults[j].stepId = tresults[t][i].stepId

(* ====================================================================== *)
(* The engine together with the Workflow's deletion and the read-only Run  *)
(* endpoints.                                                              *)
(* ====================================================================== *)

(* the Workflows whose steps were added in execution order, with the      *)
(* orders 1, 2, ...                                                        *)
OrderedStepLists ==
    UNION { { [i \in 1..n |-> MkStep(i, i, vs[i])] : vs \in [1..n -> StepVariants] } :
            n \in 0..MaxSteps }

InitWf ==
    /\ wfSteps \in OrderedStepLists
    /\ run = NoRun
    /\ resp = "none"
    /\ tpc = [t \in Tasks |-> "idle"]
    /\ tsteps = [t \in Tasks |-> <<>>]
    /\ tidx = [t \in Tasks |-> 1]
    /\ tresults = [t \in Tasks |-> <<>>]
    /\ touts = [t \in Tasks |-> {}]
    /\ rpc = [r \in Resumers |-> "idle"]
    /\ rrun = [r \in Resumers |-> NoRun]
    /\ ranswer = [r \in Resumers |-> NoneV]
    /\ wfExists = TRUE
    /\ calc = NoCalc

(* WorkflowService.delete: _get_or_404, _assert_owner, then the delete *)
delete_workflow(u) ==
    /\ IF ~wfExists
       THEN resp' = "delete_404" /\ UNCHANGED wfExists
       ELSE IF Forbidden(u)
       THEN resp' = "delete_403" /\ UNCHANGED wfExists
       ELSE resp' = "delete_204" /\ wfExists' = FALSE
    /\ UNCHANGED <<wfSteps, calc, run, tpc, tsteps, tidx, tresults, touts, rpc, rrun, ranswer>>

(* RunService.get_run *)
get_run(u) ==
    /\ resp' = IF ~wfExists THEN "get_404"
               ELSE IF Forbidden(u) THEN "get_403"
               ELSE IF run.status = "absent" THEN "get_404"
               ELSE "get_200"
    /\ UNCHANGED <<wfSteps, wfExists, calc, run, tpc, tsteps, tidx, tresults, touts, rpc, rrun, ranswer>>

(* RunService.list_runs *)
list_runs(u) ==
    /\ resp' = IF ~wfExists THEN "list_404"
               ELSE IF Forbidden(u) THEN "list_403"
               ELSE "list_200"
    /\ UNCHANGED <<wfSteps, wfExists, calc, run, tpc, tsteps, tidx, tresults, touts, rpc, rrun, ranswer>>

NextWf ==
    \/ \E u \in Users : trigger_run(u)
    \/ execute_run_start
    \/ \E t \in Tasks : continue_run_start(t)
    \/ \E t \in Tasks : execute_step(t)
    \/ \E t \in Tasks : finish_steps(t)
    \/ \E r \in Resumers, u \in Users, a \in Answers : resume_run_read(r, u, a)
    \/ \E r \in Resumers : resume_run_write(r)
    \/ \E u \in Users : delete_workflow(u)
    \/ \E u \in Users : get_run(u)
    \/ \E u \in Users : list_runs(u)

SpecWf == InitWf /\ [][NextWf]_vars

(* what a Run endpoint must leave alone when it rejects a request *)
NothingModified ==
    /\ run' = run /\ wfSteps' = wfSteps /\ wfExists' = wfExists
    /\ tpc' = tpc /\ rpc' = rpc /\ tresults' = tresults

(* C15: trigger_run, resume_run, get_run and list_runs answer not-found    *)
(* when the Workflow does not exist, forbidden when the caller is not its  *)
(* author, and (resume, get) not-found when the Run does not exist; in     *)
(* each of these cases no Run is created, no item is modified and no       *)
(* background task is scheduled.  get_run and list_runs modify nothing in  *)
(* any case.                                                               *)
C15_OwnershipCheckedFirst ==
    [][ \A u \in Users :
          /\ trigger_run(u) =>
                /\ ~wfExists => resp' = "trigger_404" /\ NothingModified
                /\ (wfExists /\ u # Author) => resp' = "trigger_403" /\ NothingModified
          /\ \A r \in Resumers, a \in Answers : resume_run_read(r, u, a) =>
                /\ ~wfExists => resp' = "resume_404" /\ NothingModified
                /\ (wfExists /\ u # Author) => resp' = "resume_403" /\ NothingModified
                /\ (wfExists /\ u = Author /\ run.status = "absent")
                      => resp' = "resume_404" /\ NothingModified
          /\ get_run(u) =>
                /\ NothingModified
                /\ ~wfExists => resp' = "get_404"
                /\ (wfExists /\ u # Author) => resp' = "get_403"
                /\ (wfExists /\ u = Author /\ run.status = "absent") => resp' = "get_404"
          /\ list_runs(u) =>
                /\ NothingModified
                /\ ~wfExists => resp' = "list_404"
                /\ (wfExists /\ u # Author) => resp' = "list_403" ]_vars

(* a caller who is not the author was refused the resume of a paused Run,  *)
(* which is still paused                                                   *)
C15_Witness ==
    /\ resp = "resume_403"
    /\ wfExists
    /\ run.status = "waiting_user_input"

(* ====================================================================== *)
(* RunService._resolve_template.  A template is a sequence of segments:    *)
(* literal text, or one match of the pattern \{\{([^}]+)\}\} with the      *)
(* matched reference kept as its sequence of tokens (names, "." and " ").  *)
(* A dict is a set of <<key, value>> pairs; a value carries its str() text *)
(* and its json.dumps text.                                                *)
(* ====================================================================== *)
MaxRefLen == 5

RefTokens == {"context", "output", "s1", "k", " ", "."}

RECURSIVE SeqsUpTo(_, _)
SeqsUpTo(S, n) ==
    IF n = 0 THEN { <<>> }
    ELSE LET shorter == SeqsUpTo(S, n - 1)
         IN shorter \cup { Append(q, x) : q \in { r \in shorter : Len(r) = n - 1 }, x \in S }

(* the references `[^}]+` can match: at least one character *)
Refs == SeqsUpTo(RefTokens, MaxRefLen) \ { <<>> }

Text(t) == [kind |-> "text", text |-> t, ref |-> <<>>]
Marker(ref) == [kind |-> "marker", text |-> "", ref |-> ref]

StrVal(t) == [kind |-> "str", str |-> t, json |-> "\"" \o t \o "\""]
FloatVal(t) == [kind |-> "float", str |-> t, json |-> t]
DictVal(pystr, jsontext) == [kind |-> "dict", str |-> pystr, json |-> jsontext]

HasKey(d, key) == \E p \in d : p[1] = key
(* d.get(key, default) *)
DictGet(d, key, default) ==
    IF HasKey(d, key) THEN (CHOOSE p \in d : p[1] = key)[2] ELSE default

(* str.strip() on the token sequence *)
RECURSIVE LStrip(_)
LStrip(ref) ==
    IF ref # <<>> /\ Head(ref) = " " THEN LStrip(Tail(ref)) ELSE ref

RECURSIVE RStrip(_)
RStrip(ref) ==
    IF ref # <<>> /\ ref[Len(ref)] = " " THEN RStrip(SubSeq(ref, 1, Len(ref) - 1)) ELSE ref

Strip(ref) == RStrip(LStrip(ref))

(* ref.split("."): the strings between the dots, empty ones included *)
RECURSIVE SplitDots(_)
SplitDots(ref) ==
    IF ref = <<>> THEN << "" >>
    ELSE LET rest == SplitDots(Tail(ref))
         IN IF Head(ref) = "." THEN << "" >> \o rest
            ELSE << Head(ref) \o Head(rest) >> \o Tail(rest)

(* str(val), or json.dumps(val) for a dict or list *)
Render(val) == IF val.kind \in {"dict", "list"} THEN val.json ELSE val.str

(* a _replace that keeps a reference whose key, step or field is absent *)
ReplaceMarker_KeepsAbsent(seg, context, step_outputs) ==
    LET parts == SplitDots(Strip(seg.ref)) IN
    IF parts[1] = "context" /\ Len(parts) >= 2
    THEN IF HasKey(context, parts[2])
         THEN Text(Render(DictGet(context, parts[2], StrVal(""))))
         ELSE seg
    ELSE IF Len(parts) >= 3 /\ parts[2] = "output"
    THEN IF HasKey(step_outputs, parts[1])
            /\ HasKey(DictGet(step_outputs, parts[1], {}), parts[3])
         THEN Text(Render(DictGet(DictGet(step_outputs, parts[1], {}), parts[3], StrVal(""))))
         ELSE seg
    ELSE seg

(* _replace (lines 503-518): the text that takes the place of one match *)
ReplaceMarker(seg, context, step_outputs) ==
    LET parts == SplitDots(Strip(seg.ref)) IN
    IF parts[1] = "context" /\ Len(parts) >= 2
    THEN Text(Render(DictGet(context, parts[2], StrVal(""))))
    ELSE IF Len(parts) >= 3 /\ parts[2] = "output"
    THEN Text(Render(DictGet(DictGet(step_outputs, parts[1], {}), parts[3], StrVal(""))))
    ELSE seg

(* re.sub over the template: every match is replaced, text is copied *)
resolve_template(template, context, step_outputs) ==
    [i \in 1..Len(template) |->
        IF template[i].kind = "marker"
        THEN ReplaceMarker(template[i], context, step_outputs)
        ELSE template[i]]

(* the arguments the helper is applied to *)
SampleRefs ==
    { <<"s1", ".", "output", ".", "k">>, <<"k", ".", "s1">> }

TemplateValues ==
    { StrVal("AI"), FloatVal("0.9"), DictVal("{'a': 1}", "{\"a\": 1}") }

TemplateInputs ==
    { [fn |-> "template",
       template |-> << Text("Write about "), Marker(r1), Marker(r2) >>,
       context |-> { <<"k", v>> },
       step_outputs |-> { <<"s1", { <<"k", FloatVal("0.9")>> }>> },
       done |-> FALSE,
       out |-> <<>>] : r1 \in Refs, r2 \in SampleRefs, v \in TemplateValues }

InitTemplate ==
    /\ calc \in TemplateInputs
    /\ wfSteps = <<>>
    /\ run = NoRun
    /\ resp = "none"
    /\ tpc = [t \in Tasks |-> "idle"]
    /\ tsteps = [t \in Tasks |-> <<>>]
    /\ tidx = [t \in Tasks |-> 1]
    /\ tresults = [t \in Tasks |-> <<>>]
    /\ touts = [t \in Tasks |-> {}]
    /\ rpc = [r \in Resumers |-> "idle"]
    /\ rrun = [r \in Resumers |-> NoRun]
    /\ ranswer = [r \in Resumers |-> NoneV]
    /\ wfExists = TRUE

call_resolve_template ==
    /\ calc.fn = "template"
    /\ ~calc.done
    /\ calc' = [calc EXCEPT !.done = TRUE,
                            !.out = resolve_template(calc.template, calc.context,
                                                     calc.step_outputs)]
    /\ UNCHANGED <<wfSteps, wfExists, run, resp, tpc, tsteps, tidx, tresults, touts,
                   rpc, rrun, ranswer>>

NextTemplate == call_resolve_template

SpecTemplate == InitTemplate /\ [][NextTemplate]_vars

(* the shapes of a reference, read off the matched text *)
RefParts(seg) == SplitDots(Strip(seg.ref))
IsContextRef(seg) == Len(RefParts(seg)) >= 2 /\ RefParts(seg)[1] = "context"
IsOutputRef(seg) ==
    ~IsContextRef(seg) /\ Len(RefParts(seg)) >= 3 /\ RefParts(seg)[2] = "output"
(* the value the reference denotes exists *)
RefPresent(seg, context, step_outputs) ==
    \/ IsContextRef(seg) /\ \E p \in context : p[1] = RefParts(seg)[2]
    \/ IsOutputRef(seg) /\ \E p \in step_outputs :
            p[1] = RefParts(seg)[1] /\ \E q \in p[2] : q[1] = RefParts(seg)[3]
RefValue(seg, context, step_outputs) ==
    IF IsContextRef(seg)
    THEN (CHOOSE p \in context : p[1] = RefParts(seg)[2])[2]
    ELSE (CHOOSE q \in (CHOOSE p \in step_outputs : p[1] = RefParts(seg)[1])[2] :
             q[1] = RefParts(seg)[3])[2]

(* C19 as stated: a reference that denotes a present context key or output *)
(* field is replaced by that value, and every other reference, one whose   *)
(* key, step id or field is absent included, is left verbatim.             *)
C19_UnresolvedLeftVerbatim ==
    (calc.fn = "template" /\ calc.done) =>
        /\ Len(calc.out) = Len(calc.template)
        /\ \A i \in 1..Len(calc.template) :
              LET seg == calc.template[i] IN
              IF seg.kind = "marker" /\ RefPresent(seg, calc.context, calc.step_outputs)
              THEN calc.out[i] = Text(Render(RefValue(seg, calc.context, calc.step_outputs)))
              ELSE calc.out[i] = seg

(* C19: a reference that denotes a present context key or output field is  *)
(* replaced by that value (its str() text, JSON for a dict); a reference   *)
(* of shape context.<key> or <step>.output.<field> whose key, step or      *)
(* field is absent is replaced by the empty string; a reference of any     *)
(* other shape, and literal text, is left verbatim.                        *)
C19_AbsentBecomesEmpty ==
    (calc.fn = "template" /\ calc.done) =>
        /\ Len(calc.out) = Len(calc.template)
        /\ \A i \in 1..Len(calc.template) :
              LET seg == calc.template[i] IN
              IF seg.kind = "marker" /\ RefPresent(seg, calc.context, calc.step_outputs)
              THEN calc.out[i] = Text(Render(RefValue(seg, calc.context, calc.step_outputs)))
              ELSE IF seg.kind = "marker" /\ (IsContextRef(seg) \/ IsOutputRef(seg))
              THEN calc.out[i] = Text("")
              ELSE calc.out[i] = seg

(* "{{ context.k }}{{k.s1}}" with k present: the first reference became the *)
(* value, the second, of no known shape, stayed                            *)
C19_Witness ==
    /\ calc.fn = "template" /\ calc.done
    /\ calc.template[2] = Marker(<<" ", "context", ".", "k", " ">>)
    /\ calc.template[3] = Marker(<<"k", ".", "s1">>)
    /\ calc.out[2] = Text("AI")
    /\ calc.out[3] = calc.template[3]

(* ====================================================================== *)
(* RunService._eval_condition.  An expression is its sequence of           *)
(* characters, over digits, a letter, blank, quote and the characters of   *)
(* the six operators.                                                      *)
(* ====================================================================== *)
MaxExprLen == 4

CondChars == {"1", "2", "a", " ", "'", ">", "<", "=", "!"}
Digits == {"1", "2"}

(* ord(c) *)
CharCode(c) ==
    CASE c = " " -> 32 [] c = "!" -> 33 [] c = "'" -> 39 [] c = "1" -> 49
      [] c = "2" -> 50 [] c = "<" -> 60 [] c = "=" -> 61 [] c = ">" -> 62
      [] c = "a" -> 97

(* an operator tuple that tries the one-character operators first *)
OpList_SingleCharFirst ==
    << <<">">>, <<"<">>, <<">", "=">>, <<"<", "=">>, <<"!", "=">>, <<"=", "=">> >>

(* the tuple (">=", "<=", "!=", "==", ">", "<") of line 572 *)
OpList ==
    << <<">", "=">>, <<"<", "=">>, <<"!", "=">>, <<"=", "=">>, <<">">>, <<"<">> >>

(* the positions at which `op` occurs in `expr` *)
Occurrences(op, expr) ==
    { i \in 1..(Len(expr) - Len(op) + 1) : SubSeq(expr, i, i + Len(op) - 1) = op }

MinOf(S) == CHOOSE x \in S : \A y \in S : x <= y

(* str.strip("'\"") *)
RECURSIVE StripQuotes(_)
StripQuotes(str) ==
    IF str # <<>> /\ Head(str) = "'" THEN StripQuotes(Tail(str))
    ELSE IF str # <<>> /\ str[Len(str)] = "'"
    THEN StripQuotes(SubSeq(str, 1, Len(str) - 1))
    ELSE str

(* float(s) succeeds: over these characters, a non-empty run of digits *)
ParsesAsFloat(str) == str # <<>> /\ \A i \in 1..Len(str) : str[i] \in Digits

(* float(s) of a run of digits *)
RECURSIVE FloatOf(_)
FloatOf(str) ==
    IF str = <<>> THEN 0
    ELSE 10 * FloatOf(SubSeq(str, 1, Len(str) - 1)) + (CharCode(str[Len(str)]) - 48)

(* Python's str comparison: -1, 0 or 1 *)
RECURSIVE StrCmp(_, _)
StrCmp(a, b) ==
    IF a = <<>> /\ b = <<>> THEN 0
    ELSE IF a = <<>> THEN -1
    ELSE IF b = <<>> THEN 1
    ELSE IF CharCode(Head(a)) < CharCode(Head(b)) THEN -1
    ELSE IF CharCode(Head(a)) > CharCode(Head(b)) THEN 1
    ELSE StrCmp(Tail(a), Tail(b))

NumCmp(x, y) == IF x < y THEN -1 ELSE IF x > y THEN 1 ELSE 0

(* the match statement of lines 582-588 on the comparison's sign *)
ApplyOp(op, sign) ==
    CASE op = <<">", "=">> -> sign >= 0
      [] op = <<"<", "=">> -> sign <= 0
      [] op = <<"!", "=">> -> sign # 0
      [] op = <<"=", "=">> -> sign = 0
      [] op = <<">">> -> sign > 0
      [] op = <<"<">> -> sign < 0

eval_condition(expr) ==
    LET found == { j \in 1..Len(OpList) : Occurrences(OpList[j], expr) # {} } IN
    IF found = {} THEN FALSE
    ELSE LET op == OpList[MinOf(found)]
             at == MinOf(Occurrences(op, expr))
             left_s == Strip(SubSeq(expr, 1, at - 1))
             right_s == Strip(SubSeq(expr, at + Len(op), Len(expr)))
         IN IF ParsesAsFloat(left_s) /\ ParsesAsFloat(right_s)
            THEN ApplyOp(op, NumCmp(FloatOf(left_s), FloatOf(right_s)))
            ELSE ApplyOp(op, StrCmp(StripQuotes(left_s), StripQuotes(right_s)))

ConditionInputs ==
    { [fn |-> "condition", expr |-> e, done |-> FALSE, out |-> FALSE] :
        e \in SeqsUpTo(CondChars, MaxExprLen) }

InitCondition ==
    /\ calc \in ConditionInputs
    /\ wfSteps = <<>>
    /\ run = NoRun
    /\ resp = "none"
    /\ tpc = [t \in Tasks |-> "idle"]
    /\ tsteps = [t \in Tasks |-> <<>>]
    /\ tidx = [t \in Tasks |-> 1]
    /\ tresults = [t \in Tasks |-> <<>>]
    /\ touts = [t \in Tasks |-> {}]
    /\ rpc = [r \in Resumers |-> "idle"]
    /\ rrun = [r \in Resumers |-> NoRun]
    /\ ranswer = [r \in Resumers |-> NoneV]
    /\ wfExists = TRUE

call_eval_condition ==
    /\ calc.fn = "condition"
    /\ ~calc.done
    /\ calc' = [calc EXCEPT !.done = TRUE, !.out = eval_condition(calc.expr)]
    /\ UNCHANGED <<wfSteps, wfExists, run, resp, tpc, tsteps, tidx, tresults, touts,
                   rpc, rrun, ranswer>>

NextCondition == call_eval_condition

SpecCondition == InitCondition /\ [][NextCondition]_vars

(* the operators in the order the claim lists them *)
C20_Ops == << ">=", "<=", "!=", "==", ">", "<" >>
C20_Chars(name) ==
    CASE name = ">=" -> <<">", "=">> [] name = "<=" -> <<"<", "=">>
      [] name = "!=" -> <<"!", "=">> [] name = "==" -> <<"=", "=">>
      [] name = ">" -> <<">">> [] name = "<" -> <<"<">>
C20_OccursAt(name, expr, i) ==
    /\ i >= 1 /\ i + Len(C20_Chars(name)) - 1 <= Len(expr)
    /\ \A k \in 1..Len(C20_Chars(name)) : expr[i + k - 1] = C20_Chars(name)[k]
C20_Occurs(name, expr) == \E i \in 1..Len(expr) : C20_OccursAt(name, expr, i)
(* `str` without the blanks (quotes) at its two ends *)
C20_Trimmed(str, ch) ==
    IF \A i \in 1..Len(str) : str[i] = ch THEN <<>>
    ELSE LET lo == CHOOSE i \in 1..Len(str) :
                       str[i] # ch /\ \A k \in 1..(i - 1) : str[k] = ch
             hi == CHOOSE i \in 1..Len(str) :
                       str[i] # ch /\ \A k \in (i + 1)..Len(str) : str[k] = ch
         IN SubSeq(str, lo, hi)
C20_IsNumber(str) == Len(str) >= 1 /\ \A i \in 1..Len(str) : str[i] \in {"1", "2"}
(* a sorts before b as Python strings *)
C20_StrLess(a, b) ==
    \/ Len(a) < Len(b) /\ SubSeq(b, 1, Len(a)) = a
    \/ \E k \in 1..Len(a) :
          /\ k <= Len(b)
          /\ SubSeq(a, 1, k - 1) = SubSeq(b, 1, k - 1)
          /\ CharCode(a[k]) < CharCode(b[k])
(* a < b as numbers, for runs of the digits 1 and 2 (no leading zero) *)
C20_NumLess(a, b) == Len(a) < Len(b) \/ (Len(a) = Len(b) /\ C20_StrLess(a, b))
C20_Holds(name, less, equal) ==
    CASE name = ">=" -> ~less [] name = "<=" -> less \/ equal
      [] name = "!=" -> ~equal [] name = "==" -> equal
      [] name = ">" -> ~less /\ ~equal [] name = "<" -> less

(* C20: the result is false when none of >=, <=, !=, ==, >, < occurs in    *)
(* the expression; otherwise the first operator of that list that occurs   *)
(* is taken at its first occurrence, both sides are trimmed, and the       *)
(* result is the numeric comparison when both sides parse as numbers and   *)
(* else the comparison of the two sides as strings without their           *)
(* surrounding quotes (lexical for the order operators).                   *)
C20_ConditionEvaluator ==
    (calc.fn = "condition" /\ calc.done) =>
        IF \A j \in 1..6 : ~C20_Occurs(C20_Ops[j], calc.expr)
        THEN calc.out = FALSE
        ELSE LET j == CHOOSE j \in 1..6 :
                        /\ C20_Occurs(C20_Ops[j], calc.expr)
                        /\ \A h \in 1..(j - 1) : ~C20_Occurs(C20_Ops[h], calc.expr)
                 name == C20_Ops[j]
                 at == CHOOSE i \in 1..Len(calc.expr) :
                        /\ C20_OccursAt(name, calc.expr, i)
                        /\ \A h \in 1..(i - 1) : ~C20_OccursAt(name, calc.expr, h)
                 L == C20_Trimmed(SubSeq(calc.expr, 1, at - 1), " ")
                 R == C20_Trimmed(SubSeq(calc.expr, at + Len(C20_Chars(name)),
                                         Len(calc.expr)), " ")
             IN IF C20_IsNumber(L) /\ C20_IsNumber(R)
                THEN calc.out = C20_Holds(name, C20_NumLess(L, R), L = R)
                ELSE calc.out = C20_Holds(name,
                                    C20_StrLess(C20_Trimmed(L, "'"), C20_Trimmed(R, "'")),
                                    C20_Trimmed(L, "'") = C20_Trimmed(R, "'"))

(* "2>=1" was evaluated: >= is chosen although > occurs as well, and the   *)
(* numeric comparison is true                                              *)
C20_Witness ==
    /\ calc.fn = "condition" /\ calc.done
    /\ calc.expr = <<"2", ">", "=", "1">>
    /\ calc.out = TRUE

(* ====================================================================== *)
(* WorkflowService._run_validation and the payload RunService builds for   *)
(* the same AGENT steps (_resolve_agent_input).  One agent, "a1", is in    *)
(* the Agent store; "ghost" is not.                                        *)
(* ====================================================================== *)
MaxFields == 2

(* FieldSchema entries of an agent's inputSchema *)
FieldVariants ==
    [fieldName : {"x", "y"}, required : BOOLEAN, default : {NoneV, "d"}]

AgentVariants ==
    { [inputSchema |-> fs, outputSchema |-> <<"y">>] : fs \in SeqsUpTo(FieldVariants, MaxFields) }

LiteralTemplate == << Text("lit") >>

(* the steps a Workflow under validation is made of *)
VStepVariants ==
    { [type |-> "AGENT", agentId |-> "ghost", inputMapping |-> {},
       missingFieldsResolution |-> {}, outField |-> NoneV],
      [type |-> "AGENT", agentId |-> "a1", inputMapping |-> {},
       missingFieldsResolution |-> {}, outField |-> NoneV],
      [type |-> "AGENT", agentId |-> "a1", inputMapping |-> { <<"x", LiteralTemplate>> },
       missingFieldsResolution |-> {}, outField |-> NoneV],
      [type |-> "AGENT", agentId |-> "a1", inputMapping |-> {},
       missingFieldsResolution |-> { <<"x", LiteralTemplate>> }, outField |-> NoneV],
      [type |-> "LLM", agentId |-> NoneV, inputMapping |-> {},
       missingFieldsResolution |-> {}, outField |-> "x"],
      [type |-> "LOGIC", agentId |-> NoneV, inputMapping |-> {},
       missingFieldsResolution |-> {}, outField |-> NoneV] }

MkVStep(i, o, v) ==
    [stepId |-> StepIdOf(i), order |-> o, type |-> v.type, agentId |-> v.agentId,
     inputMapping |-> v.inputMapping,
     missingFieldsResolution |-> v.missingFieldsResolution, outField |-> v.outField]

VStepLists ==
    UNION { { [i \in 1..n |-> MkVStep(i, os[i], vs[i])] :
                os \in [1..n -> 1..MaxOrder], vs \in [1..n -> VStepVariants] } :
            n \in 0..MaxSteps }

VContexts == { {}, { <<"x", StrVal("ctx")>> } }

Keys(d) == { p[1] : p \in d }

(* sorted(context_keys): the keys in their string order *)
KeysInOrder == << "a", "b", "k", "x" >>
SortedKeys(keys) ==
    LET In(k) == k \in keys IN SelectSeq(KeysInOrder, In)

(* suggestions[:3] of ["context." + k for k in sorted(context_keys)] + ["fixed_value"] *)
Suggestions(context_keys) ==
    LET ks == SortedKeys(context_keys)
        all == [i \in 1..Len(ks) |-> "context." \o ks[i]] \o << "fixed_value" >>
    IN SubSeq(all, 1, IF Len(all) < 3 THEN Len(all) ELSE 3)

AgentNotFoundIssue(step) ==
    [stepId |-> step.stepId, field |-> "agentId", issue |-> "Agent not found",
     suggestions |-> <<>>]

UnresolvedIssue(step, field_name, context_keys) ==
    [stepId |-> step.stepId, field |-> field_name,
     issue |-> "Required field cannot be resolved from upstream",
     suggestions |-> Suggestions(context_keys)]

(* a field test that takes a declared default for unresolved *)
FieldUnresolved_IgnoresDefault(step, field, available_fields) ==
    /\ field.required
    /\ field.fieldName \notin Keys(step.inputMapping)
    /\ field.fieldName \notin Keys(step.missingFieldsResolution)
    /\ field.fieldName \notin available_fields

(* the four `continue`s of lines 249-262 all fail for this field *)
FieldUnresolved(step, field, available_fields) ==
    /\ field.required
    /\ field.default = NoneV
    /\ field.fieldName \notin Keys(step.inputMapping)
    /\ field.fieldName \notin Keys(step.missingFieldsResolution)
    /\ field.fieldName \notin available_fields

(* the loop over agent["inputSchema"], lines 247-278 *)
RECURSIVE FieldIssues(_, _, _, _)
FieldIssues(step, schema, context_keys, available_fields) ==
    IF schema = <<>> THEN <<>>
    ELSE (IF FieldUnresolved(step, Head(schema), available_fields)
          THEN << UnresolvedIssue(step, Head(schema).fieldName, context_keys) >>
          ELSE <<>>)
         \o FieldIssues(step, Tail(schema), context_keys, available_fields)

SeqToSet(q) == { q[i] : i \in 1..Len(q) }

(* a step check that does not register the agent's output fields *)
validate_agent_step_NoRegistration(step, context_keys, available_fields, agents) ==
    IF ~HasKey(agents, step.agentId)
    THEN [issues |-> << AgentNotFoundIssue(step) >>, available |-> available_fields]
    ELSE [issues |-> FieldIssues(step, DictGet(agents, step.agentId, NoneV).inputSchema,
                                 context_keys, available_fields),
          available |-> available_fields]

(* _validate_agent_step: the issues it appends and the available fields    *)
(* it leaves                                                               *)
validate_agent_step(step, context_keys, available_fields, agents) ==
    IF ~HasKey(agents, step.agentId)
    THEN [issues |-> << AgentNotFoundIssue(step) >>, available |-> available_fields]
    ELSE LET agent == DictGet(agents, step.agentId, NoneV) IN
         [issues |-> FieldIssues(step, agent.inputSchema, context_keys, available_fields),
          available |-> available_fields \cup SeqToSet(agent.outputSchema)]

(* a loop that returns at the first step with an issue *)
RECURSIVE validation_loop_StopsAtFirstIssue(_, _, _, _, _)
validation_loop_StopsAtFirstIssue(steps, context_keys, available_fields, issues, agents) ==
    IF steps = <<>> \/ issues # <<>> THEN issues
    ELSE LET step == Head(steps) IN
         IF step.type = "AGENT"
         THEN LET r == validate_agent_step(step, context_keys, available_fields, agents)
              IN validation_loop_StopsAtFirstIssue(Tail(steps), context_keys, r.available,
                                                   issues \o r.issues, agents)
         ELSE validation_loop_StopsAtFirstIssue(Tail(steps), context_keys,
                  IF step.type = "LLM" /\ step.outField # NoneV
                  THEN available_fields \cup {step.outField} ELSE available_fields,
                  issues, agents)

(* `for step in steps` of _run_validation, lines 192-210 *)
RECURSIVE validation_loop(_, _, _, _, _)
validation_loop(steps, context_keys, available_fields, issues, agents) ==
    IF steps = <<>> THEN issues
    ELSE LET step == Head(steps) IN
         IF step.type = "AGENT"
         THEN LET r == validate_agent_step(step, context_keys, available_fields, agents)
              IN validation_loop(Tail(steps), context_keys, r.available,
                                 issues \o r.issues, agents)
         ELSE validation_loop(Tail(steps), context_keys,
                  IF step.type = "LLM" /\ step.outField # NoneV
                  THEN available_fields \cup {step.outField} ELSE available_fields,
                  issues, agents)

run_validation(steps, context, agents) ==
    LET issues == validation_loop(SortedByOrder(steps), Keys(context), Keys(context),
                                  <<>>, agents)
    IN [compatible |-> Len(issues) = 0, issues |-> issues]

(* ------------------------ _resolve_agent_input ------------------------ *)
DefaultSentinel == << Marker(<<"default">>) >>     \* the template "{{default}}"

Resolved(segs) == [kind |-> "resolved", segs |-> segs, default |-> NoneV]
Defaulted(d) == [kind |-> "default", segs |-> <<>>, default |-> d]

(* a loop that consults missingFieldsResolution before inputMapping *)
RECURSIVE resolve_agent_input_loop_ResolutionFirst(_, _, _, _, _)
resolve_agent_input_loop_ResolutionFirst(step, schema, context, step_outputs, result) ==
    IF schema = <<>> THEN result
    ELSE LET fname == Head(schema).fieldName
             default == Head(schema).default
             next ==
               IF HasKey(step.missingFieldsResolution, fname)
               THEN PutOutput(result, fname,
                        Resolved(resolve_template(
                            DictGet(step.missingFieldsResolution, fname, <<>>),
                            context, step_outputs)))
               ELSE IF HasKey(step.inputMapping, fname)
               THEN LET tpl == DictGet(step.inputMapping, fname, <<>>) IN
                    PutOutput(result, fname,
                        IF tpl = DefaultSentinel THEN Defaulted(default)
                        ELSE Resolved(resolve_template(tpl, context, step_outputs)))
               ELSE IF default # NoneV THEN PutOutput(result, fname, Defaulted(default))
               ELSE result
         IN resolve_agent_input_loop_ResolutionFirst(step, Tail(schema), context,
                                                     step_outputs, next)

(* the loop over agent["inputSchema"], lines 537-557: `result` after it *)
RECURSIVE resolve_agent_input_loop(_, _, _, _, _)
resolve_agent_input_loop(step, schema, context, step_outputs, result) ==
    IF schema = <<>> THEN result
    ELSE LET fname == Head(schema).fieldName
             default == Head(schema).default
             next ==
               IF HasKey(step.inputMapping, fname)
               THEN LET tpl == DictGet(step.inputMapping, fname, <<>>) IN
                    PutOutput(result, fname,
                        IF tpl = DefaultSentinel THEN Defaulted(default)
                        ELSE Resolved(resolve_template(tpl, context, step_outputs)))
               ELSE IF HasKey(step.missingFieldsResolution, fname)
               THEN PutOutput(result, fname,
                        Resolved(resolve_template(
                            DictGet(step.missingFieldsResolution, fname, <<>>),
                            context, step_outputs)))
               ELSE IF default # NoneV THEN PutOutput(result, fname, Defaulted(default))
               ELSE result
         IN resolve_agent_input_loop(step, Tail(schema), context, step_outputs, next)

resolve_agent_input(step, agent, context, step_outputs) ==
    resolve_agent_input_loop(step, agent.inputSchema, context, step_outputs, {})

(* The payloads an execution of `steps` builds, one per AGENT step reached, *)
(* every call returning: an agent returns its outputSchema fields, a model *)
(* step its outputSchema field.  Execution stops at an AGENT step whose    *)
(* agent is not found.                                                     *)
RECURSIVE execution_payloads(_, _, _, _)
execution_payloads(steps, context, step_outputs, agents) ==
    IF steps = <<>> THEN <<>>
    ELSE LET step == Head(steps) IN
         IF step.type = "AGENT"
         THEN IF ~HasKey(agents, step.agentId) THEN <<>>
              ELSE LET agent == DictGet(agents, step.agentId, NoneV) IN
                   << [stepId |-> step.stepId,
                       payload |-> resolve_agent_input(step, agent, context, step_outputs)] >>
                   \o execution_payloads(Tail(steps), context,
                          PutOutput(step_outputs, step.stepId,
                              { <<f, StrVal("out")>> : f \in SeqToSet(agent.outputSchema) }),
                          agents)
         ELSE execution_payloads(Tail(steps), context,
                  IF step.type = "LLM"
                  THEN PutOutput(step_outputs, step.stepId,
                                 { <<step.outField, StrVal("llm")>> })
                  ELSE PutOutput(step_outputs, step.stepId, {}),
                  agents)

ValidationInputs ==
    { [fn |-> "validate", steps |-> sl, context |-> c, agents |-> { <<"a1", a>> },
       phase |-> "init",
       result |-> [compatible |-> FALSE, issues |-> <<>>],
       payloads |-> <<>>] : sl \in VStepLists, c \in VContexts, a \in AgentVariants }

InitValidate ==
    /\ calc \in ValidationInputs
    /\ wfSteps = <<>>
    /\ run = NoRun
    /\ resp = "none"
    /\ tpc = [t \in Tasks |-> "idle"]
    /\ tsteps = [t \in Tasks |-> <<>>]
    /\ tidx = [t \in Tasks |-> 1]
    /\ tresults = [t \in Tasks |-> <<>>]
    /\ touts = [t \in Tasks |-> {}]
    /\ rpc = [r \in Resumers |-> "idle"]
    /\ rrun = [r \in Resumers |-> NoRun]
    /\ ranswer = [r \in Resumers |-> NoneV]
    /\ wfExists = TRUE

(* POST /{workflow_id}/validate by the author *)
validate ==
    /\ calc.fn = "validate"
    /\ calc.phase = "init"
    /\ calc' = [calc EXCEPT !.phase = "validated",
                            !.result = run_validation(calc.steps, calc.context, calc.agents)]
    /\ UNCHANGED <<wfSteps, wfExists, run, resp, tpc, tsteps, tidx, tresults, touts,
                   rpc, rrun, ranswer>>

(* the Workflow is then executed with the same agents *)
execute_validated ==
    /\ calc.fn = "validate"
    /\ calc.phase = "validated"
    /\ calc' = [calc EXCEPT !.phase = "executed",
                            !.payloads = execution_payloads(SortedByOrder(calc.steps),
                                             calc.context, {}, calc.agents)]
    /\ UNCHANGED <<wfSteps, wfExists, run, resp, tpc, tsteps, tidx, tresults, touts,
                   rpc, rrun, ranswer>>

NextValidate == validate \/ execute_validated

SpecValidate == InitValidate /\ [][NextValidate]_vars

(* ----------------- validation, stated over the inputs ------------------ *)
VSteps(c) == SeqToSet(c.steps)
VPos(c, s) == CHOOSE i \in 1..Len(c.steps) : c.steps[i].stepId = s.stepId
(* p is executed before s: smaller order, or equal order and stored first *)
VPrecedes(c, p, s) ==
    p.order < s.order \/ (p.order = s.order /\ VPos(c, p) < VPos(c, s))
VAgentKnown(c, s) == s.type = "AGENT" /\ \E a \in c.agents : a[1] = s.agentId
VAgentOf(c, s) == (CHOOSE a \in c.agents : a[1] = s.agentId)[2]
(* the named fields step p makes available to later steps *)
VProduces(c, p) ==
    IF VAgentKnown(c, p)
    THEN { VAgentOf(c, p).outputSchema[i] : i \in 1..Len(VAgentOf(c, p).outputSchema) }
    ELSE IF p.type = "LLM" /\ p.outField # NoneV THEN { p.outField }
    ELSE {}
VAvailableAt(c, s) ==
    { kv[1] : kv \in c.context } \cup
        UNION { VProduces(c, p) : p \in { q \in VSteps(c) : VPrecedes(c, q, s) } }
(* the schema entries of s's agent that nothing resolves *)
VUnresolvedEntries(c, s) ==
    { e \in 1..Len(VAgentOf(c, s).inputSchema) :
        LET f == VAgentOf(c, s).inputSchema[e] IN
        /\ f.required
        /\ f.default = NoneV
        /\ ~\E m \in s.inputMapping : m[1] = f.fieldName
        /\ ~\E m \in s.missingFieldsResolution : m[1] = f.fieldName
        /\ f.fieldName \notin VAvailableAt(c, s) }
VIssuesAt(c, s) == { i \in 1..Len(c.result.issues) : c.result.issues[i].stepId = s.stepId }

(* C16: for every AGENT step whose agent exists and every field name, the  *)
(* issues of that step naming the field are as many as the step's schema   *)
(* entries of that name that are required, have no default and are in none *)
(* of inputMapping, missingFieldsResolution and the fields available at    *)
(* the step: one issue per such entry, none for any other entry.           *)
C16_OneIssuePerUnresolvedField ==
    (calc.fn = "validate" /\ calc.phase # "init") =>
        \A s \in VSteps(calc) :
            VAgentKnown(calc, s) =>
                /\ \A name \in {"x", "y"} :
                      Cardinality({ i \in VIssuesAt(calc, s) :
                                      calc.result.issues[i].field = name })
                        = Cardinality({ e \in VUnresolvedEntries(calc, s) :
                                          VAgentOf(calc, s).inputSchema[e].fieldName = name })
                /\ \A i \in VIssuesAt(calc, s) :
                      calc.result.issues[i].field \in {"x", "y"}

(* one AGENT step whose agent requires x, with no mapping and an empty     *)
(* context: exactly one issue, for x                                       *)
C16_Witness ==
    /\ calc.fn = "validate" /\ calc.phase = "validated"
    /\ calc.context = {}
    /\ Len(calc.steps) = 1
    /\ calc.steps[1].type = "AGENT" /\ calc.steps[1].agentId = "a1"
    /\ calc.steps[1].inputMapping = {} /\ calc.steps[1].missingFieldsResolution = {}
    /\ VAgentOf(calc, calc.steps[1]).inputSchema
          = << [fieldName |-> "x", required |-> TRUE, default |-> NoneV] >>
    /\ Len(calc.result.issues) = 1
    /\ calc.result.issues[1].field = "x"
    /\ ~calc.result.compatible

(* the number of issues step s must contribute *)
VExpectedCount(c, s) ==
    IF s.type # "AGENT" THEN 0
    ELSE IF ~VAgentKnown(c, s) THEN 1
    ELSE Cardinality(VUnresolvedEntries(c, s))
VStepOfIssue(c, i) == CHOOSE s \in VSteps(c) : s.stepId = c.result.issues[i].stepId
VComplete(c) ==
    /\ c.result.compatible = (c.result.issues = <<>>)
    /\ \A i \in 1..Len(c.result.issues) :
          \E s \in VSteps(c) : s.stepId = c.result.issues[i].stepId
    /\ \A s \in VSteps(c) : Cardinality(VIssuesAt(c, s)) = VExpectedCount(c, s)
    /\ \A s \in VSteps(c) :
          (s.type = "AGENT" /\ ~VAgentKnown(c, s)) =>
              \A i \in VIssuesAt(c, s) : c.result.issues[i].field = "agentId"
    /\ \A i, j \in 1..Len(c.result.issues) :
          i < j => ~VPrecedes(c, VStepOfIssue(c, j), VStepOfIssue(c, i))

(* C17: a validation returns the issues of every step, those after an      *)
(* unresolved field or an unknown agent included, in execution order;      *)
(* compatible is true exactly when there is none; and it changes neither   *)
(* the Workflow, the agents, the Run nor any background task.              *)
C17_ValidationNeverShortCircuits ==
    [][ (calc.fn = "validate" /\ calc.phase = "init" /\ calc'.phase = "validated") =>
          /\ VComplete(calc')
          /\ calc'.steps = calc.steps
          /\ calc'.agents = calc.agents
          /\ calc'.context = calc.context
          /\ wfSteps' = wfSteps /\ wfExists' = wfExists
          /\ run' = run /\ tpc' = tpc ]_vars

(* an unknown agent first and an unresolved field of a later step: both    *)
(* are reported, in that order                                             *)
C17_Witness ==
    /\ calc.fn = "validate" /\ calc.phase = "validated"
    /\ Len(calc.steps) = 2
    /\ Len(calc.result.issues) = 2
    /\ calc.result.issues[1].field = "agentId"
    /\ calc.result.issues[2].field = "x"
    /\ calc.result.issues[1].stepId # calc.result.issues[2].stepId
    /\ ~calc.result.compatible

(* C18: when validation returned compatible = true and the Workflow is     *)
(* executed with the same agents, the payload built for every AGENT step   *)
(* holds every required field of its agent that has no default.            *)
C18_CompatibleMeansRunnable ==
    (calc.fn = "validate" /\ calc.phase = "executed" /\ calc.result.compatible) =>
        \A s \in VSteps(calc) :
            s.type = "AGENT" =>
                \E i \in 1..Len(calc.payloads) :
                    /\ calc.payloads[i].stepId = s.stepId
                    /\ \A e \in 1..Len(VAgentOf(calc, s).inputSchema) :
                          LET f == VAgentOf(calc, s).inputSchema[e] IN
                          (f.required /\ f.default = NoneV) =>
                              \E kv \in calc.payloads[i].payload : kv[1] = f.fieldName

(* ====================================================================== *)
(* The continuation pass                                                  *)
(* ====================================================================== *)

(* continue_run of resume request t reads the Run and enters the loop in   *)
(* this step                                                               *)
ContinueStarts(t) == t \in Resumers /\ tpc[t] = "scheduled" /\ tpc'[t] = "loop"

(* positions of the workflow steps whose order is greater than `o` *)
C21_After(o) == { i \in 1..Len(wfSteps) : wfSteps[i].order > o }

(* `outs` is the stepId-keyed map of the success entries of `results`: a   *)
(* key for every success entry and for nothing else, the value being that  *)
(* entry's output (of the latest such entry where a stepId occurs twice)   *)
C21_SuccessMap(results, outs) ==
    /\ \A i \in 1..Len(results) :
          results[i].status = "success" => \E p \in outs : p[1] = results[i].stepId
    /\ \A p \in outs :
          \E i \in 1..Len(results) :
             /\ results[i].status = "success"
             /\ results[i].stepId = p[1]
             /\ results[i].output = p[2]
             /\ \A j \in (i + 1)..Len(results) :
                   ~(results[j].status = "success" /\ results[j].stepId = p[1])
    /\ \A p, q \in outs : p[1] = q[1] => p = q

(* C21: continue_run hands to the loop exactly the workflow steps whose    *)
(* order is strictly greater than the pendingStepOrder it read, each once  *)
(* and in ascending order, with the StepResults it read as the existing    *)
(* results; the loop executes them from the first and never changes the    *)
(* list; and the step-output map each of these steps sees is the map of    *)
(* the success StepResults so far (the answered user_input step's          *)
(* {outputField: answer} included), with nothing from other results.       *)
C21_ContinueRunsStepsAfterPause ==
    /\ [][ \A t \in Resumers :
             /\ ContinueStarts(t) =>
                  LET remaining == tsteps'[t]
                      after == C21_After(run.pendingStepOrder)
                  IN /\ Len(remaining) = Cardinality(after)
                     /\ \A i \in after : \E k \in 1..Len(remaining) : remaining[k] = wfSteps[i]
                     /\ \A k \in 1..Len(remaining) : remaining[k].order > run.pendingStepOrder
                     /\ \A j, k \in 1..Len(remaining) :
                           j < k => remaining[j].order <= remaining[k].order
                     /\ tidx'[t] = 1
                     /\ tresults'[t] = run.stepResults
             /\ (tpc[t] = "loop" => tsteps'[t] = tsteps[t])
             /\ (Iterates(t) => Last(tresults'[t]).stepId = CurStep(t).stepId) ]_vars
    /\ [](\A t \in Resumers :
             tpc[t] = "loop" => C21_SuccessMap(tresults[t], touts[t]))

(* a continuation about to execute the one step after the answered        *)
(* user_input step s1, seeing the injected answer as the output of s1      *)
C21_Witness ==
    \E t \in Resumers :
        /\ Executing(t)
        /\ Len(wfSteps) = 2 /\ Len(tsteps[t]) = 1 /\ tidx[t] = 1
        /\ run.pendingSet /\ run.pendingStepId = "s1"
        /\ CurStep(t).order > run.pendingStepOrder
        /\ <<"s1", {<<"approved", "yes">>}>> \in touts[t]
        /\ Cardinality(touts[t]) = 1

(* ---------------------------------------------------------------------- *)
(* `old` is kept, entry for entry, at the front of `new` *)
IsPrefix(old, new) ==
    Len(old) <= Len(new) /\ \A i \in 1..Len(old) : new[i] = old[i]

(* `new` is `old` with only the entry of the paused step replaced *)
C22_PausedEntryReplaced(old, new, pending_step_id) ==
    /\ Len(new) = Len(old)
    /\ \A i \in 1..Len(old) : new[i] # old[i] => old[i].stepId = pending_step_id
    /\ Cardinality({ i \in 1..Len(old) : new[i] # old[i] }) <= 1

(* C22: the persisted stepResults is append-only: every step of a request  *)
(* or background task either keeps all persisted entries in their          *)
(* positions and adds entries at the end only; or it is the write of a     *)
(* resume request and replaces, in place, the entry of the paused step.    *)
C22_StepResultsAppendOnly ==
    [][ \/ IsPrefix(run.stepResults, run'.stepResults)
        \/ /\ \E r \in Resumers : ResumeWrites(r)
           /\ C22_PausedEntryReplaced(run.stepResults, run'.stepResults,
                                      run.pendingStepId) ]_vars

(* ---------------------------------------------------------------------- *)
(* C23: each workflow step is attempted at most once within the Run: the   *)
(* persisted stepResults never holds two entries with the same stepId.     *)
C23_OneResultPerStep ==
    \A i, j \in 1..Len(run.stepResults) :
        i # j => run.stepResults[i].stepId # run.stepResults[j].stepId

(* ---------------------------------------------------------------------- *)
IsCondition(step) == step.type = "LOGIC" /\ step.logicType = "condition"

(* the output a condition step records for the verdict `b` *)
C24_Output(step, b) ==
    { <<"result", IF b THEN "true" ELSE "false">>,
      <<"branch", IF b THEN "then" ELSE "else">>,
      <<"nextStep", IF b THEN step.then ELSE step.else>> }

(* C24: the engine is strictly linear.  A condition step that returns      *)
(* yields a success result whose output is {result, branch, nextStep} with *)
(* branch "then" exactly when result is true and nextStep the configured   *)
(* then / else reference; whatever the verdict, the pass writes nothing,   *)
(* keeps its list of steps and moves on to the step that follows in        *)
(* ascending order; and the steps of a pass, in ascending order and (for   *)
(* execute_run) all the workflow's steps, never depend on a verdict.  With *)
(* distinct orders the step that follows is the one with the next greater  *)
(* order among the workflow's steps.                                       *)
C24_ConditionIsLinear ==
    /\ [][ \A t \in Tasks :
             (Iterates(t) /\ IsCondition(CurStep(t))
                 /\ Last(tresults'[t]).status # "failed")
               => /\ Last(tresults'[t]).status = "success"
                  /\ Last(tresults'[t]).stepId = CurStep(t).stepId
                  /\ \E b \in BOOLEAN :
                        Last(tresults'[t]).output = C24_Output(CurStep(t), b)
                  /\ run' = run
                  /\ tpc'[t] = "loop"
                  /\ tsteps'[t] = tsteps[t]
                  /\ tidx'[t] = tidx[t] + 1 ]_vars
    /\ [](\A t \in Tasks :
             tpc[t] = "loop"
               => /\ \A j, k \in 1..Len(tsteps[t]) :
                        j < k => tsteps[t][j].order <= tsteps[t][k].order
                  /\ t = 0 => /\ Len(tsteps[t]) = Len(wfSteps)
                              /\ \A i \in 1..Len(wfSteps) :
                                    \E k \in 1..Len(tsteps[t]) : tsteps[t][k] = wfSteps[i]
                  /\ DistinctOrders =>
                        \A k \in 1..(Len(tsteps[t]) - 1) :
                           /\ tsteps[t][k].order < tsteps[t][k + 1].order
                           /\ ~\E i \in 1..Len(wfSteps) :
                                 /\ wfSteps[i].order > tsteps[t][k].order
                                 /\ wfSteps[i].order < tsteps[t][k + 1].order)

(* execute_run took the else branch of condition s1, whose else target is  *)
(* s1 itself and whose then target is s2, and went on to execute s2        *)
C24_Witness ==
    /\ Len(tresults[0]) = 2
    /\ tresults[0][1].stepId = "s1"
    /\ <<"branch", "else">> \in tresults[0][1].output
    /\ <<"nextStep", "s1">> \in tresults[0][1].output
    /\ tresults[0][2].stepId = "s2"
    /\ tresults[0][2].status = "success"

(* ====================================================================== *)
(* One AGENT step executed by _exec_agent: the agent is found, the payload *)
(* is built by _resolve_agent_input, and the agent is invoked with it.     *)
(* ====================================================================== *)

(* the templates an inputMapping entry holds: the sentinel, a literal, a   *)
(* reference to the context key "x"                                        *)
MappingTemplates ==
    { DefaultSentinel, LiteralTemplate, << Marker(<<"context", ".", "x">>) >> }

(* the `value` of a missingFieldsResolution entry *)
ResolutionTemplates == { << Text("fixed") >> }

(* the dicts with keys among `names` and values among `values` *)
DictsOver(names, values) ==
    UNION { { { <<n, f[n]>> : n \in ks } : f \in [ks -> values] } : ks \in SUBSET names }

AgentStepVariants ==
    { [type |-> "AGENT", agentId |-> "a1", inputMapping |-> im,
       missingFieldsResolution |-> mr, outField |-> NoneV] :
         im \in DictsOver({"x", "y"}, MappingTemplates),
         mr \in DictsOver({"x", "y"}, ResolutionTemplates) }

ResolveInputs ==
    { [fn |-> "exec_agent", step |-> MkVStep(1, 1, v), agent |-> a, context |-> c,
       step_outputs |-> {}, phase |-> "init", payload |-> {}] :
         v \in AgentStepVariants, a \in AgentVariants, c \in VContexts }

InitResolve ==
    /\ calc \in ResolveInputs
    /\ wfSteps = <<>>
    /\ run = NoRun
    /\ resp = "none"
    /\ tpc = [t \in Tasks |-> "idle"]
    /\ tsteps = [t \in Tasks |-> <<>>]
    /\ tidx = [t \in Tasks |-> 1]
    /\ tresults = [t \in Tasks |-> <<>>]
    /\ touts = [t \in Tasks |-> {}]
    /\ rpc = [r \in Resumers |-> "idle"]
    /\ rrun = [r \in Resumers |-> NoRun]
    /\ ranswer = [r \in Resumers |-> NoneV]
    /\ wfExists = TRUE

(* _exec_agent lines 358-373: the payload is built and handed to the       *)
(* invocation; nothing in between looks at the schema                      *)
exec_agent_invoke ==
    /\ calc.fn = "exec_agent"
    /\ calc.phase = "init"
    /\ calc' = [calc EXCEPT !.phase = "invoked",
                            !.payload = resolve_agent_input(calc.step, calc.agent,
                                            calc.context, calc.step_outputs)]
    /\ UNCHANGED <<wfSteps, wfExists, run, resp, tpc, tsteps, tidx, tresults, touts,
                   rpc, rrun, ranswer>>

(* the invocation returns (lines 381-388) or raises *)
exec_agent_return(ok) ==
    /\ calc.fn = "exec_agent"
    /\ calc.phase = "invoked"
    /\ calc' = [calc EXCEPT !.phase = IF ok THEN "success" ELSE "raised"]
    /\ UNCHANGED <<wfSteps, wfExists, run, resp, tpc, tsteps, tidx, tresults, touts,
                   rpc, rrun, ranswer>>

NextResolve == exec_agent_invoke \/ \E ok \in BOOLEAN : exec_agent_return(ok)

SpecResolve == InitResolve /\ [][NextResolve]_vars

(* ------------------ the payload, stated over the inputs ---------------- *)
(* the schema entries that declare field f, and those with a default *)
C25_Entries(c, f) ==
    { i \in 1..Len(c.agent.inputSchema) : c.agent.inputSchema[i].fieldName = f }
C25_WithDefault(c, f) ==
    { i \in C25_Entries(c, f) : c.agent.inputSchema[i].default # NoneV }
C25_Max(S) == CHOOSE m \in S : \A i \in S : i <= m

C25_Mapped(c, f) == \E p \in c.step.inputMapping : p[1] = f
C25_HasResolution(c, f) == \E p \in c.step.missingFieldsResolution : p[1] = f
C25_Template(d, f) == (CHOOSE p \in d : p[1] = f)[2]

(* some source applies to the declared field f *)
C25_Satisfied(c, f) ==
    C25_Mapped(c, f) \/ C25_HasResolution(c, f) \/ C25_WithDefault(c, f) # {}

(* the value the first applicable source gives to f *)
C25_Value(c, f) ==
    IF C25_Mapped(c, f)
    THEN IF C25_Template(c.step.inputMapping, f) = << Marker(<<"default">>) >>
         THEN [kind |-> "default", segs |-> <<>>,
               default |-> c.agent.inputSchema[C25_Max(C25_Entries(c, f))].default]
         ELSE [kind |-> "resolved",
               segs |-> resolve_template(C25_Template(c.step.inputMapping, f),
                                         c.context, c.step_outputs),
               default |-> NoneV]
    ELSE IF C25_HasResolution(c, f)
    THEN [kind |-> "resolved",
          segs |-> resolve_template(C25_Template(c.step.missingFieldsResolution, f),
                                    c.context, c.step_outputs),
          default |-> NoneV]
    ELSE [kind |-> "default", segs |-> <<>>,
          default |-> c.agent.inputSchema[C25_Max(C25_WithDefault(c, f))].default]

C25_Declared(c) == { c.agent.inputSchema[i].fieldName : i \in 1..Len(c.agent.inputSchema) }

(* C25: the payload _resolve_agent_input builds holds declared input       *)
(* fields only, each with the value of the first applicable source in the  *)
(* order inputMapping template (the sentinel "{{default}}" giving the      *)
(* schema default instead of a substitution), missingFieldsResolution      *)
(* value, schema default; a declared field that no source satisfies is     *)
(* absent; and the agent is invoked with this payload whatever is absent.  *)
C25_AgentInputPriority ==
    /\ [](calc.fn = "exec_agent" /\ calc.phase # "init"
            => /\ { p[1] : p \in calc.payload } =
                     { f \in C25_Declared(calc) : C25_Satisfied(calc, f) }
               /\ \A p \in calc.payload : p[2] = C25_Value(calc, p[1])
               /\ \A p, q \in calc.payload : p[1] = q[1] => p = q)
    /\ [][ (calc.fn = "exec_agent" /\ calc.phase = "init") => calc'.phase = "invoked" ]_vars

(* the agent declares x (required, default d) and y (required, no default);*)
(* x is mapped to the sentinel and also has a missingFieldsResolution; the *)
(* agent was invoked with x = d and without y, and returned                *)
C25_Witness ==
    /\ calc.fn = "exec_agent"
    /\ calc.phase = "success"
    /\ calc.agent.inputSchema =
          << [fieldName |-> "x", required |-> TRUE, default |-> "d"],
             [fieldName |-> "y", required |-> TRUE, default |-> NoneV] >>
    /\ calc.step.inputMapping = { <<"x", DefaultSentinel>> }
    /\ calc.step.missingFieldsResolution = { <<"x", << Text("fixed") >> >> }
    /\ calc.payload = { <<"x", Defaulted("d")>> }

(* ====================================================================== *)
(* _run_validation step by step: one action per iteration of its loop, so  *)
(* that available_fields is visible at the moment each step is checked.    *)
(* ====================================================================== *)

(* an LLM step without outputSchema *)
LLMWithoutSchema ==
    [type |-> "LLM", agentId |-> NoneV, inputMapping |-> {},
     missingFieldsResolution |-> {}, outField |-> NoneV]

(* agents whose input fields are all required and without default *)
RequiredFields == { f \in FieldVariants : f.required /\ f.default = NoneV }

LoopAgents ==
    { [inputSchema |-> fs, outputSchema |-> <<"y">>] :
        fs \in SeqsUpTo(RequiredFields, MaxFields) }

LoopStepLists ==
    UNION { { [i \in 1..n |-> MkVStep(i, os[i], vs[i])] :
                os \in [1..n -> 1..MaxOrder],
                vs \in [1..n -> VStepVariants \cup {LLMWithoutSchema}] } :
            n \in 0..MaxSteps }

(* Workflow contexts: those of VContexts, and contexts of up to MaxKeys keys *)
MaxKeys == 3

LoopContexts ==
    VContexts \cup
        { { <<KeysInOrder[i], StrVal("ctx")>> : i \in 1..n } :
            n \in 1..(IF MaxKeys < Len(KeysInOrder) THEN MaxKeys ELSE Len(KeysInOrder)) }

LoopInputs ==
    { [fn |-> "run_validation", steps |-> sl, context |-> c, agents |-> { <<"a1", a>> },
       phase |-> "init", sorted |-> <<>>, idx |-> 1, available_fields |-> {},
       issues |-> <<>>, compatible |-> FALSE] :
         sl \in LoopStepLists, c \in LoopContexts, a \in LoopAgents }

InitLoop ==
    /\ calc \in LoopInputs
    /\ wfSteps = <<>>
    /\ run = NoRun
    /\ resp = "none"
    /\ tpc = [t \in Tasks |-> "idle"]
    /\ tsteps = [t \in Tasks |-> <<>>]
    /\ tidx = [t \in Tasks |-> 1]
    /\ tresults = [t \in Tasks |-> <<>>]
    /\ touts = [t \in Tasks |-> {}]
    /\ rpc = [r \in Resumers |-> "idle"]
    /\ rrun = [r \in Resumers |-> NoRun]
    /\ ranswer = [r \in Resumers |-> NoneV]
    /\ wfExists = TRUE

(* lines 184-190: the sort and the initial available_fields *)
run_validation_start ==
    /\ calc.fn = "run_validation"
    /\ calc.phase = "init"
    /\ calc' = [calc EXCEPT !.phase = "loop",
                            !.sorted = SortedByOrder(calc.steps),
                            !.idx = 1,
                            !.available_fields = Keys(calc.context),
                            !.issues = <<>>]
    /\ UNCHANGED <<wfSteps, wfExists, run, resp, tpc, tsteps, tidx, tresults, touts,
                   rpc, rrun, ranswer>>

(* one iteration of `for step in steps`, lines 192-210 *)
validation_step ==
    /\ calc.fn = "run_validation"
    /\ calc.phase = "loop"
    /\ calc.idx <= Len(calc.sorted)
    /\ LET step == calc.sorted[calc.idx] IN
       IF step.type = "AGENT"
       THEN LET r == validate_agent_step(step, Keys(calc.context),
                                         calc.available_fields, calc.agents)
            IN calc' = [calc EXCEPT !.idx = @ + 1,
                                    !.issues = @ \o r.issues,
                                    !.available_fields = r.available]
       ELSE IF step.type = "LLM" /\ step.outField # NoneV
       THEN calc' = [calc EXCEPT !.idx = @ + 1,
                                 !.available_fields = @ \cup {step.outField}]
       ELSE calc' = [calc EXCEPT !.idx = @ + 1]
    /\ UNCHANGED <<wfSteps, wfExists, run, resp, tpc, tsteps, tidx, tresults, touts,
                   rpc, rrun, ranswer>>

(* lines 212-215 *)
run_validation_return ==
    /\ calc.fn = "run_validation"
    /\ calc.phase = "loop"
    /\ calc.idx > Len(calc.sorted)
    /\ calc' = [calc EXCEPT !.phase = "done", !.compatible = (Len(calc.issues) = 0)]
    /\ UNCHANGED <<wfSteps, wfExists, run, resp, tpc, tsteps, tidx, tresults, touts,
                   rpc, rrun, ranswer>>

NextLoop == run_validation_start \/ validation_step \/ run_validation_return

SpecLoop == InitLoop /\ [][NextLoop]_vars

(* -------------------------- stated over the inputs --------------------- *)
(* the step being checked in this step of the loop *)
C26_Checks(s) ==
    /\ calc.fn = "run_validation" /\ calc.phase = "loop"
    /\ calc.idx <= Len(calc.sorted)
    /\ calc.sorted[calc.idx] = s
    /\ calc'.idx = calc.idx + 1

(* the schema entries of s's agent that `available` leaves unresolved, in  *)
(* schema order                                                            *)
C26_UnresolvedNames(c, s, available) ==
    LET schema == VAgentOf(c, s).inputSchema
        Open(f) == /\ f.required /\ f.default = NoneV
                   /\ ~\E m \in s.inputMapping : m[1] = f.fieldName
                   /\ ~\E m \in s.missingFieldsResolution : m[1] = f.fieldName
                   /\ f.fieldName \notin available
        open == SelectSeq(schema, Open)
    IN [i \in 1..Len(open) |-> open[i].fieldName]

(* C26: when a step is checked, available_fields is the context keys plus  *)
(* the output fields of the found agents of the AGENT steps before it plus *)
(* the declared output fields of the LLM steps before it (before: smaller  *)
(* order, or equal order and stored first); the step's own outputs are     *)
(* added after its check, which uses the set as it was; LLM and LOGIC      *)
(* steps raise no issue and a LOGIC step adds nothing; an AGENT step whose *)
(* agent is not found adds exactly one issue, on agentId, and no field.    *)
C26_AvailableFields ==
    /\ [](calc.fn = "run_validation" /\ calc.phase = "loop" /\ calc.idx <= Len(calc.sorted)
            => calc.available_fields = VAvailableAt(calc, calc.sorted[calc.idx]))
    /\ [][ \A s \in VSteps(calc) :
             C26_Checks(s) =>
               /\ calc'.available_fields = calc.available_fields \cup VProduces(calc, s)
               /\ (s.type = "LOGIC" => calc'.available_fields = calc.available_fields)
               /\ (s.type # "AGENT" => calc'.issues = calc.issues)
               /\ (s.type = "AGENT" /\ ~VAgentKnown(calc, s)) =>
                     /\ Len(calc'.issues) = Len(calc.issues) + 1
                     /\ SubSeq(calc'.issues, 1, Len(calc.issues)) = calc.issues
                     /\ Last(calc'.issues).stepId = s.stepId
                     /\ Last(calc'.issues).field = "agentId"
                     /\ calc'.available_fields = calc.available_fields
               /\ VAgentKnown(calc, s) =>
                     LET names == C26_UnresolvedNames(calc, s, calc.available_fields) IN
                     /\ Len(calc'.issues) = Len(calc.issues) + Len(names)
                     /\ SubSeq(calc'.issues, 1, Len(calc.issues)) = calc.issues
                     /\ \A i \in 1..Len(names) :
                           /\ calc'.issues[Len(calc.issues) + i].field = names[i]
                           /\ calc'.issues[Len(calc.issues) + i].stepId = s.stepId ]_vars

(* an AGENT step of a missing agent, then an AGENT step whose agent needs  *)
(* x and y and returns y: at the second check nothing is available, both   *)
(* fields are reported, and y is available only afterwards                 *)
C26_Witness ==
    /\ calc.fn = "run_validation" /\ calc.phase = "loop"
    /\ calc.context = {}
    /\ Len(calc.sorted) = 2 /\ calc.idx = 3
    /\ calc.sorted[1].agentId = "ghost"
    /\ calc.sorted[2].agentId = "a1"
    /\ calc.sorted[2].inputMapping = {} /\ calc.sorted[2].missingFieldsResolution = {}
    /\ Len(calc.issues) = 3
    /\ calc.issues[1].field = "agentId"
    /\ calc.issues[2].field = "x" /\ calc.issues[3].field = "y"
    /\ calc.available_fields = {"y"}

(* ---------------------------------------------------------------------- *)
(* the suggestions that name a context key *)
C27_ContextSuggestions(c, issue) ==
    { i \in 1..Len(issue.suggestions) :
        \E kv \in c.context : issue.suggestions[i] = "context." \o kv[1] }

(* C27: every issue for an unresolvable required field carries suggestions *)
(* made of at most 3 context keys, each as context.<key>, plus fixed_value:*)
(* fixed_value is among them for any number of context keys.               *)
C27_FixedValueAlwaysSuggested ==
    calc.fn = "run_validation" =>
        \A n \in 1..Len(calc.issues) :
            calc.issues[n].field # "agentId" =>
                /\ Cardinality(C27_ContextSuggestions(calc, calc.issues[n])) <= 3
                /\ \A i \in 1..Len(calc.issues[n].suggestions) :
                      \/ i \in C27_ContextSuggestions(calc, calc.issues[n])
                      \/ calc.issues[n].suggestions[i] = "fixed_value"
                /\ \E i \in 1..Len(calc.issues[n].suggestions) :
                      calc.issues[n].suggestions[i] = "fixed_value"

(* ====================================================================== *)
(* Editing the steps of a Workflow (WorkflowService.add_step, replace_step *)
(* and delete_step over WorkflowDAO), from the empty list a created        *)
(* Workflow has.  Requests are handled one at a time.                      *)
(* ====================================================================== *)

(* `calc` counts the uuid4 step ids handed out so far *)
EditCalc == [fn |-> "edit", added |-> 0]

InitEdit ==
    /\ wfSteps = <<>>
    /\ calc = EditCalc
    /\ run = NoRun
    /\ resp = "none"
    /\ tpc = [t \in Tasks |-> "idle"]
    /\ tsteps = [t \in Tasks |-> <<>>]
    /\ tidx = [t \in Tasks |-> 1]
    /\ tresults = [t \in Tasks |-> <<>>]
    /\ touts = [t \in Tasks |-> {}]
    /\ rpc = [r \in Resumers |-> "idle"]
    /\ rrun = [r \in Resumers |-> NoRun]
    /\ ranswer = [r \in Resumers |-> NoneV]
    /\ wfExists = TRUE

StepIds == { StepIdOf(i) : i \in 1..MaxSteps }

HasStep(steps, step_id) == \E i \in 1..Len(steps) : steps[i].stepId = step_id

(* WorkflowDAO.replace_step: the first entry with that stepId is replaced *)
ReplaceIn(steps, step_id, new_step) ==
    LET i == CHOOSE k \in 1..Len(steps) :
                /\ steps[k].stepId = step_id
                /\ \A j \in 1..(k - 1) : steps[j].stepId # step_id
    IN [steps EXCEPT ![i] = new_step]

(* WorkflowDAO.delete_step: [s for s in steps if s.stepId != step_id] *)
RemoveFrom(steps, step_id) ==
    LET Keep(s) == s.stepId # step_id IN SelectSeq(steps, Keep)

(* POST /{workflow_id}/steps: a fresh stepId, the caller's order; at most  *)
(* MaxSteps ids are handed out                                             *)
add_step(u, o, v) ==
    /\ calc.fn = "edit"
    /\ calc.added < MaxSteps
    /\ IF ~wfExists
       THEN resp' = "step_404" /\ UNCHANGED <<wfSteps, calc>>
       ELSE IF Forbidden(u)
       THEN resp' = "step_403" /\ UNCHANGED <<wfSteps, calc>>
       ELSE /\ wfSteps' = Append(wfSteps, MkStep(calc.added + 1, o, v))
            /\ calc' = [calc EXCEPT !.added = @ + 1]
            /\ resp' = "step_201"
    /\ UNCHANGED <<wfExists, run, tpc, tsteps, tidx, tresults, touts, rpc, rrun, ranswer>>

(* PUT /{workflow_id}/steps/{step_id}: the stepId of the URL, the body's   *)
(* order and fields                                                        *)
replace_step(u, step_id, o, v) ==
    /\ calc.fn = "edit"
    /\ IF ~wfExists
       THEN resp' = "step_404" /\ UNCHANGED wfSteps
       ELSE IF Forbidden(u)
       THEN resp' = "step_403" /\ UNCHANGED wfSteps
       ELSE IF ~HasStep(wfSteps, step_id)
       THEN resp' = "step_404" /\ UNCHANGED wfSteps
       ELSE /\ wfSteps' = ReplaceIn(wfSteps, step_id,
                                    [MkStep(1, o, v) EXCEPT !.stepId = step_id])
            /\ resp' = "step_200"
    /\ UNCHANGED <<wfExists, calc, run, tpc, tsteps, tidx, tresults, touts, rpc, rrun, ranswer>>

(* DELETE /{workflow_id}/steps/{step_id} *)
delete_step(u, step_id) ==
    /\ calc.fn = "edit"
    /\ IF ~wfExists
       THEN resp' = "step_404" /\ UNCHANGED wfSteps
       ELSE IF Forbidden(u)
       THEN resp' = "step_403" /\ UNCHANGED wfSteps
       ELSE IF ~HasStep(wfSteps, step_id)
       THEN resp' = "step_404" /\ UNCHANGED wfSteps
       ELSE /\ wfSteps' = RemoveFrom(wfSteps, step_id)
            /\ resp' = "step_200"
    /\ UNCHANGED <<wfExists, calc, run, tpc, tsteps, tidx, tresults, touts, rpc, rrun, ranswer>>

NextEdit ==
    \/ \E u \in Users, o \in 1..MaxOrder, v \in StepVariants : add_step(u, o, v)
    \/ \E u \in Users, s \in StepIds, o \in 1..MaxOrder, v \in StepVariants :
          replace_step(u, s, o, v)
    \/ \E u \in Users, s \in StepIds : delete_step(u, s)
    \/ \E u \in Users : delete_workflow(u)

SpecEdit == InitEdit /\ [][NextEdit]_vars

(* C28: after any sequence of add_step, replace_step and delete_step, no   *)
(* two steps of the Workflow have the same order.                          *)
C28_UniqueStepOrders ==
    \A i, j \in 1..Len(wfSteps) : i # j => wfSteps[i].order # wfSteps[j].order

(* ---------------------------------------------------------------------- *)
(* a background task of the Run that is scheduled or inside its pass *)
TaskActive(t) == tpc[t] \in {"scheduled", "loop"}

(* C29: once every background task scheduled for the Run (execute_run by   *)
(* trigger_run, continue_run by resume_run) has run to completion, the     *)
(* persisted status is success, failed or waiting_user_input and no longer *)
(* running, also when the Workflow was deleted after the request.          *)
C29_RunLeavesRunning ==
    (run.status # "absent" /\ \A t \in Tasks : ~TaskActive(t))
        => run.status \in {"success", "failed", "waiting_user_input"}

(* ---------------------------------------------------------------------- *)
(* positions of the persisted StepResults with status `st` *)
C30_With(st) == { i \in 1..Len(run.stepResults) : run.stepResults[i].status = st }

(* C30: in every persisted state of the Run, a StepResult with status      *)
(* waiting_user_input exists exactly when the Run's status is              *)
(* waiting_user_input, and then it is the only one, the last entry, and    *)
(* its stepId is pendingStepId; a StepResult with status failed is always  *)
(* the last entry and occurs only when the Run's status is failed.         *)
C30_WaitingAndFailedResultsPlaced ==
    /\ (C30_With("waiting_user_input") # {}) <=> (run.status = "waiting_user_input")
    /\ run.status = "waiting_user_input"
          => /\ C30_With("waiting_user_input") = { Len(run.stepResults) }
             /\ run.pendingSet
             /\ Last(run.stepResults).stepId = run.pendingStepId
    /\ C30_With("failed") # {}
          => /\ C30_With("failed") = { Len(run.stepResults) }
             /\ run.status = "failed"
====
